---- MODULE Spec2Model ----
(***************************************************************************)
(* A model of the CDF reader (crate cdf): the magic prelude, the record    *)
(* decoders and the linked-list walks, over a byte stream with a cursor    *)
(* and the decoding context.                                               *)
(*                                                                         *)
(* Integers of the program are kept at their width.  TLC's integers are    *)
(* 32-bit, so an i32 is an integer, a u32 is the pair of its 16-bit halves *)
(* <<hi, lo>>, and an i64 is the pair <<hi, lo>> of its two 32-bit halves, *)
(* each read as an i32 (the value is hi * 2^32 + (lo mod 2^32)).           *)
(***************************************************************************)
EXTENDS Integers, Sequences, FiniteSets, TLC

VARIABLES
    file,       \* the input byte stream (a sequence of bytes)
    fill,       \* what a failed read_exact leaves in the buffer
    decoder,    \* Decoder { reader (its position and I/O trace), context }
    pc,         \* the position of Cdf::decode_be
    is_compressed, cdr, gdr, adr_vec, agredr_vec, azedr_vec,   \* locals of Cdf::decode_be
    chain_next, \* the loop variable adr_next / agredr_next / azedr_next
    adr_idx,    \* the index of the `for adr in adr_vec.iter()` loops
    result,     \* the error the call returned, NoErr for Ok, None while it runs
    cls,        \* the record class decode_be is called on ("Cdf": the whole file)
    record      \* the record a record's decode_be returned

vars == <<file, fill, decoder, pc, is_compressed, cdr, gdr, adr_vec, agredr_vec,
          azedr_vec, chain_next, adr_idx, result, cls, record>>

-----------------------------------------------------------------------------
(* Option<T> *)
None == <<>>
Some(x) == <<x>>
IsSome(o) == o # <<>>
Unwrap(o) == o[1]

(* `let x = e; k(x)`: e is evaluated once and k sees its value. *)
Then(e, k(_)) == CHOOSE out \in {k(x) : x \in {e}} : TRUE

(* Bytes and fixed-width integers. *)
Byte == 0..255
Zeros(n) == [i \in 1..n |-> 0]

SByte(b) == IF b >= 128 THEN b - 256 ELSE b

\* i32::from_be_bytes
I32FromBE(b) == SByte(b[1]) * 16777216 + b[2] * 65536 + b[3] * 256 + b[4]
\* i32::from_le_bytes
I32FromLE(b) == SByte(b[4]) * 16777216 + b[3] * 65536 + b[2] * 256 + b[1]
\* u32::from_be_bytes, as <<high 16 bits, low 16 bits>>
U32FromBE(b) == <<b[1] * 256 + b[2], b[3] * 256 + b[4]>>
\* i64::from_be_bytes, as <<high i32, low i32>>
I64FromBE(b) == <<I32FromBE(SubSeq(b, 1, 4)), I32FromBE(SubSeq(b, 5, 8))>>
\* i64::from_le_bytes
I64FromLE(b) == <<I32FromLE(SubSeq(b, 5, 8)), I32FromLE(SubSeq(b, 1, 4))>>
\* i64::from(s: i32): sign extension
I64FromI32(s) == <<IF s < 0 THEN -1 ELSE 0, s>>

I64Zero == <<0, 0>>
I64MinusOne == <<-1, -1>>
I64IsNeg(v) == v[1] < 0
\* the i64 is one of 0 .. 2^31 - 1
I64IsSmall(v) == v[1] = 0 /\ v[2] >= 0

\* A position no stream of the model reaches: the place of every offset >= 2^31.
FarPos == 2147483647

\* `x as u64` of an i64, as a stream position
PosOfU64(v) == IF I64IsSmall(v) THEN v[2] ELSE FarPos

(* CdfVersion, ordered as #[derive(PartialOrd, Ord)] orders it. *)
CdfVersionNew(major, minor, patch) == <<major, minor, patch>>
VersionLess(a, b) ==
    \/ a[1] < b[1]
    \/ a[1] = b[1] /\ a[2] < b[2]
    \/ a[1] = b[1] /\ a[2] = b[2] /\ a[3] < b[3]

-----------------------------------------------------------------------------
(* CdfError *)
NoErr == [kind |-> "none", class |-> "", field |-> "", expected |-> 0,
          received |-> 0, word |-> <<0, 0>>]
IoErr == [NoErr EXCEPT !.kind = "Io"]
DecodeErr(class, field, expected, received) ==
    [kind |-> "Decode", class |-> class, field |-> field, expected |-> expected,
     received |-> received, word |-> <<0, 0>>]
\* From<TryFromIntError> for CdfError
TryFromIntErr == DecodeErr("", "TryFromIntError", 0, 0)
MissingContextErr(what) == DecodeErr("context", what, 0, 0)
InvalidMagicNumber(w) == [NoErr EXCEPT !.kind = "InvalidMagicNumber", !.word = w]

(* Results: Result<T, CdfError> together with the decoder as the call left it. *)
Ok(v, d) == [ok |-> TRUE, err |-> NoErr, val |-> v, d |-> d]
Err(e, d) == [ok |-> FALSE, err |-> e, val |-> None, d |-> d]

-----------------------------------------------------------------------------
(* DecodeContext *)
DecodeContextDefault ==
    [encoding |-> None, endianness |-> None, version |-> None,
     num_r_dims |-> None, size_r_dims |-> None, num_z_dims |-> None,
     size_z_dims |-> None, var_data_type |-> None, var_data_len |-> None,
     num_records |-> None, row_major |-> None]

DecoderNew == [pos |-> 0, context |-> DecodeContextDefault, log |-> <<>>]

set_version(d, version) == [d EXCEPT !.context.version = Some(version)]
set_encoding(d, encoding) == [d EXCEPT !.context.encoding = Some(encoding)]
set_endianness(d, endianness) == [d EXCEPT !.context.endianness = Some(endianness)]
set_row_majority(d, row_major) == [d EXCEPT !.context.row_major = Some(row_major)]
set_var_data_type(d, t) == [d EXCEPT !.context.var_data_type = Some(t)]
set_var_data_len(d, n) == [d EXCEPT !.context.var_data_len = Some(n)]
set_num_records(d, n) == [d EXCEPT !.context.num_records = Some(n)]
set_num_dimension_zvariable(d, n) == [d EXCEPT !.context.num_z_dims = Some(n)]
set_size_dimension_zvariable(d, v) == [d EXCEPT !.context.size_z_dims = Some(v)]

\* the getters: ok_or(CdfError::Decode(..))
get_ctx(d, name) ==
    IF IsSome(d.context[name]) THEN Ok(Unwrap(d.context[name]), d)
    ELSE Err(MissingContextErr(name), d)

-----------------------------------------------------------------------------
(* The reader: io::Read + io::Seek over `file`. *)

\* read_exact(&mut [0u8; n]).  Every call is entered in the I/O trace with the
\* place it read at, the field it was made for and the context's version then.
ReadExact(d, n, what) ==
    LET fits == d.pos <= Len(file) /\ n <= Len(file) - d.pos
        entry == [op |-> "read", at |-> d.pos, n |-> n, what |-> what,
                  ver |-> d.context.version, ok |-> fits]
    IN  IF fits
        THEN Ok(SubSeq(file, d.pos + 1, d.pos + n),
                [d EXCEPT !.pos = d.pos + n, !.log = Append(@, entry)])
        ELSE Err(IoErr, [d EXCEPT !.pos = IF d.pos < Len(file) THEN Len(file) ELSE @,
                                  !.log = Append(@, entry)])

\* seek(SeekFrom::Start(p))
SeekStart(d, p) ==
    [d EXCEPT !.pos = p,
              !.log = Append(@, [op |-> "seek", at |-> p, n |-> 0, what |-> <<"", "">>,
                                 ver |-> d.context.version, ok |-> TRUE])]

\* seek_relative(delta); seeking before byte 0 is an error
SeekRelative(d, delta) ==
    IF d.pos + delta < 0 THEN Err(IoErr, d)
    ELSE Ok(None, [d EXCEPT !.pos = d.pos + delta,
                   !.log = Append(@, [op |-> "seek", at |-> d.pos + delta, n |-> 0,
                                      what |-> <<"", "">>,
                                      ver |-> d.context.version, ok |-> TRUE])])

-----------------------------------------------------------------------------
(* The primitive types (impl_decodable!). *)

\* the value of a successful result mapped by f, as Result::map does
MapOk(r0, f(_)) == Then(r0, LAMBDA r : IF r.ok THEN [r EXCEPT !.val = f(r.val)] ELSE r)

CdfInt4_decode_be(d, what) ==
    LET r == ReadExact(d, 4, what)
    IN  IF r.ok THEN [r EXCEPT !.val = I32FromBE(r.val)] ELSE r

CdfUint4_decode_be(d, what) ==
    LET r == ReadExact(d, 4, what)
    IN  IF r.ok THEN [r EXCEPT !.val = U32FromBE(r.val)] ELSE r

CdfInt8_decode_be(d, what) ==
    LET r == ReadExact(d, 8, what)
    IN  IF r.ok THEN [r EXCEPT !.val = I64FromBE(r.val)] ELSE r

\* A variant that widens the 4-byte form with zeros; the properties of the
\* offsets tell it from decode_version3_int4_int8.
decode_version3_int4_int8_zext(d, what) ==
    LET v == get_ctx(d, "version")
    IN  IF ~v.ok THEN v
        ELSE IF v.val[1] >= 3 THEN CdfInt8_decode_be(d, what)
        ELSE LET r == CdfInt4_decode_be(d, what)
             IN  IF r.ok THEN [r EXCEPT !.val = <<0, r.val>>] ELSE r

\* The version-aware decoder of record sizes and file offsets.
decode_version3_int4_int8(d, what) ==
    LET v == get_ctx(d, "version")
    IN  IF ~v.ok THEN v
        ELSE IF v.val[1] >= 3 THEN CdfInt8_decode_be(d, what)
        ELSE LET r == CdfInt4_decode_be(d, what)
             IN  IF r.ok THEN [r EXCEPT !.val = I64FromI32(r.val)] ELSE r

(* Strings. *)

\* take_while(|c| *c != 0)
TakeWhileNonZero(b0) ==
    Then(b0, LAMBDA b :
         IF \A i \in 1..Len(b) : b[i] # 0 THEN b
         ELSE SubSeq(b, 1, (CHOOSE i \in 1..Len(b) :
                               b[i] = 0 /\ \A j \in 1..(i - 1) : b[j] # 0) - 1))

IsCont(b, i) == i <= Len(b) /\ b[i] >= 128 /\ b[i] <= 191

\* the number of continuation bytes the lead byte x asks for; -1: x leads nothing
Utf8Tail(x) ==
    IF x < 128 THEN 0
    ELSE IF x >= 194 /\ x <= 223 THEN 1
    ELSE IF x >= 224 /\ x <= 239 THEN 2
    ELSE IF x >= 240 /\ x <= 244 THEN 3
    ELSE -1

\* String::from_utf8 accepts b: every byte that is no continuation byte leads a
\* well-formed sequence, followed by exactly the continuation bytes it asks for
Utf8Valid(b) ==
    /\ ~IsCont(b, 1)
    /\ \A i \in 1..Len(b) :
         IsCont(b, i) \/
         /\ Utf8Tail(b[i]) >= 0
         /\ \A j \in 1..Utf8Tail(b[i]) : IsCont(b, i + j)
         /\ ~IsCont(b, i + Utf8Tail(b[i]) + 1)
         /\ (b[i] = 224 => b[i + 1] >= 160)
         /\ (b[i] = 237 => b[i + 1] <= 159)
         /\ (b[i] = 240 => b[i + 1] >= 144)
         /\ (b[i] = 244 => b[i + 1] <= 143)

\* the buffer after read_exact: what was read, or after a failed read what
\* `fill` says: the bytes that were left in the stream followed by the zeros the
\* buffer was created with, or the zeros alone (read_exact leaves the buffer
\* unspecified when it fails)
BufferAfter(d, num_bytes, r) ==
    IF r.ok THEN r.val
    ELSE IF fill = "partial" /\ d.pos < Len(file)
         THEN SubSeq(file, d.pos + 1, Len(file)) \o Zeros(num_bytes - (Len(file) - d.pos))
    ELSE Zeros(num_bytes)

\* CdfString::decode_string_from_numbytes.  The result of read_exact is dropped.
decode_string_from_numbytes(d, num_bytes, what) ==
    Then(ReadExact(d, num_bytes, what), LAMBDA r :
    Then(TakeWhileNonZero(BufferAfter(d, num_bytes, r)), LAMBDA text :
         IF Utf8Valid(text) THEN Ok(text, r.d)
         ELSE Err(DecodeErr("", "Error decoding string", 0, 0), r.d)))

-----------------------------------------------------------------------------
(* A record decoder runs down its statements; s is the state of one such    *)
(* run: whether an error has been returned, the decoder, and the fields so  *)
(* far.                                                                     *)

Start(class, d) == [ok |-> TRUE, err |-> NoErr, d |-> d, rec |-> <<>>, class |-> class]
Put(s, name, v) == [s EXCEPT !.rec = (name :> v) @@ @]
PutD(s, name, v, d) == [s EXCEPT !.rec = (name :> v) @@ @, !.d = d]
Fail(s, e, d) == [s EXCEPT !.ok = FALSE, !.err = e, !.d = d]
\* the `?` on a Result r: go on with its value under `name`, or return its error
Try(s, name, r0) ==
    Then(r0, LAMBDA r : IF r.ok THEN PutD(s, name, r.val, r.d) ELSE Fail(s, r.err, r.d))
Finish(s0) == Then(s0, LAMBDA s : IF s.ok THEN Ok(s.rec, s.d) ELSE Err(s.err, s.d))

\* the field a statement is about, as the I/O trace names it
What(s, name) == <<s.class, name>>

-----------------------------------------------------------------------------
(* CdfEncoding and Endian (repr.rs). *)

\* impl TryFrom<CdfInt4> for CdfEncoding: the tags that name a variant
EncodingTags == (0..7) \cup {9} \cup (11..21)

BigEndianEncodings_swapped == {4, 6, 13, 16, 17, 19}
BigEndianEncodings == {1, 2, 12, 9, 5, 7, 18}
LittleEndianEncodings == {4, 6, 13, 16, 17, 19}

\* CdfEncoding::get_endian
get_endian(encoding, d) ==
    IF encoding \in BigEndianEncodings THEN Ok("Big", d)
    ELSE IF encoding \in LittleEndianEncodings THEN Ok("Little", d)
    ELSE IF encoding = 0
         THEN Err(DecodeErr("CdfEncoding", "unspecified", 0, encoding), d)
    ELSE Err(DecodeErr("CdfEncoding", "not implemented", 0, encoding), d)

\* decoder.context.get_encoding()?.get_endian()?
context_endianness(d) ==
    LET e == get_ctx(d, "encoding")
    IN  IF ~e.ok THEN e ELSE get_endian(e.val, d)

-----------------------------------------------------------------------------
(* The value algebra (types.rs).  A CdfType is [t |-> variant, v |-> value];  *)
(* a float is kept as its bit pattern.                                        *)

DataTypeTags == {1, 2, 4, 8, 11, 12, 14, 21, 22, 31, 32, 33, 41, 44, 45, 51, 52}

\* A variant that takes the tag 44 for a Real8 and 45 for a Real4; the
\* properties of the data types tell it from VariantOf.
VariantOf_swapped(tag) ==
    CASE tag = 1 -> "Int1"   [] tag = 2 -> "Int2"   [] tag = 4 -> "Int4"
      [] tag = 8 -> "Int8"   [] tag = 11 -> "Uint1" [] tag = 12 -> "Uint2"
      [] tag = 14 -> "Uint4" [] tag = 21 -> "Real4" [] tag = 22 -> "Real8"
      [] tag = 31 -> "Epoch" [] tag = 32 -> "Epoch16" [] tag = 33 -> "TimeTt2000"
      [] tag = 41 -> "Byte"  [] tag = 44 -> "Real8" [] tag = 45 -> "Real4"
      [] tag = 51 -> "Char"  [] tag = 52 -> "Uchar"

\* the enum variant a tag is decoded to, and the byte size of its type
VariantOf(tag) ==
    CASE tag = 1 -> "Int1"   [] tag = 2 -> "Int2"   [] tag = 4 -> "Int4"
      [] tag = 8 -> "Int8"   [] tag = 11 -> "Uint1" [] tag = 12 -> "Uint2"
      [] tag = 14 -> "Uint4" [] tag = 21 -> "Real4" [] tag = 22 -> "Real8"
      [] tag = 31 -> "Epoch" [] tag = 32 -> "Epoch16" [] tag = 33 -> "TimeTt2000"
      [] tag = 41 -> "Byte"  [] tag = 44 -> "Real4" [] tag = 45 -> "Real8"
      [] tag = 51 -> "Char"  [] tag = 52 -> "Uchar"

SizeOfVariant(t) ==
    CASE t \in {"Int1", "Uint1", "Byte", "Char", "Uchar"} -> 1
      [] t \in {"Int2", "Uint2"} -> 2
      [] t \in {"Int4", "Uint4", "Real4"} -> 4
      [] t \in {"Int8", "Real8", "Epoch", "TimeTt2000"} -> 8
      [] t = "Epoch16" -> 16

Reverse(b) == [i \in 1..Len(b) |-> b[Len(b) + 1 - i]]

\* T::from_be_bytes
FromBeBytes(t, b) ==
    CASE t \in {"Int1", "Byte"} -> SByte(b[1])
      [] t \in {"Uint1", "Char", "Uchar"} -> b[1]
      [] t = "Int2" -> SByte(b[1]) * 256 + b[2]
      [] t = "Uint2" -> b[1] * 256 + b[2]
      [] t \in {"Int4", "Real4"} -> I32FromBE(b)
      [] t = "Uint4" -> U32FromBE(b)
      [] t \in {"Int8", "Real8", "Epoch", "TimeTt2000"} -> I64FromBE(b)
      [] t = "Epoch16" -> <<I64FromBE(SubSeq(b, 1, 8)), I64FromBE(SubSeq(b, 9, 16))>>

\* i32::to_be_bytes
I32ToBE(v) == <<(v \div 16777216) % 256, (v \div 65536) % 256, (v \div 256) % 256, v % 256>>
\* i64::to_be_bytes of <<high i32, low i32>>
I64ToBE(v) == I32ToBE(v[1]) \o I32ToBE(v[2])

\* T::to_be_bytes
ToBeBytes(t, v) ==
    CASE t \in {"Int1", "Byte", "Uint1", "Char", "Uchar"} -> <<v % 256>>
      [] t \in {"Int2", "Uint2"} -> <<(v \div 256) % 256, v % 256>>
      [] t \in {"Int4", "Real4"} -> I32ToBE(v)
      [] t = "Uint4" -> <<v[1] \div 256, v[1] % 256, v[2] \div 256, v[2] % 256>>
      [] t \in {"Int8", "Real8", "Epoch", "TimeTt2000"} -> I64ToBE(v)
      [] t = "Epoch16" -> I64ToBE(v[1]) \o I64ToBE(v[2])

\* T::to_le_bytes
ToLeBytes(t, v) ==
    CASE t = "Epoch16" -> Reverse(I64ToBE(v[1])) \o Reverse(I64ToBE(v[2]))
      [] OTHER -> Reverse(ToBeBytes(t, v))

\* A variant that swaps the sixteen bytes of an Epoch16 as one word; the
\* properties of the byte round trip tell it from FromLeBytes.
FromLeBytes_wholeSwap(t, b) == FromBeBytes(t, Reverse(b))

\* A variant that reads little-endian input as big-endian; the properties of
\* the payload byte order tell it from FromLeBytes.
FromLeBytes_unswapped(t, b) == FromBeBytes(t, b)

\* T::from_le_bytes
FromLeBytes(t, b) ==
    CASE t = "Epoch16" -> <<I64FromLE(SubSeq(b, 1, 8)), I64FromLE(SubSeq(b, 9, 16))>>
      [] OTHER -> FromBeBytes(t, Reverse(b))

FromBytes(t, endian, b) ==
    IF endian = "Big" THEN FromBeBytes(t, b) ELSE FromLeBytes(t, b)

\* for _ in 0..n { result.push(T::decode_xx(decoder)?) }: n reads of size(T)
\* bytes each; the first one that does not fit returns the I/O error.
DecodeElements(d, t, endian, n, what) ==
    LET size == SizeOfVariant(t)
        avail == IF d.pos < Len(file) THEN Len(file) - d.pos ELSE 0
        k == IF n <= avail \div size THEN n ELSE avail \div size
        at(i) == d.pos + (i - 1) * size
        entries == [i \in 1..k |->
                      [op |-> "read", at |-> at(i), n |-> size, what |-> what,
                       ver |-> d.context.version, ok |-> TRUE]]
        vals == [i \in 1..k |->
                   [t |-> t, v |-> FromBytes(t, endian, SubSeq(file, at(i) + 1, at(i) + size))]]
        dk == [d EXCEPT !.pos = IF k > 0 THEN d.pos + k * size ELSE @,
                        !.log = @ \o entries]
    IN  IF k = n THEN Ok(vals, dk)
        ELSE LET r == ReadExact(dk, size, what) IN Err(r.err, r.d)

\* CdfString::from_slice_chars: the chars, one per byte, as they are
from_slice_chars(chars) == [t |-> "String", v |-> [i \in 1..Len(chars) |-> chars[i].v]]

\* CdfType::decode_vec_be / decode_vec_le
decode_vec(d, endian, data_type, num_elements, what) ==
    IF data_type \notin DataTypeTags
    THEN Err(DecodeErr("CdfType", "Invalid CDF data_type", 0, data_type), d)
    ELSE IF num_elements < 0 THEN Err(TryFromIntErr, d)
    ELSE IF data_type \in {51, 52}
         THEN MapOk(DecodeElements(d, "Char", endian, num_elements, what),
                    LAMBDA chars : <<from_slice_chars(chars)>>)
    ELSE DecodeElements(d, VariantOf(data_type), endian, num_elements, what)

\* decode_cdf_type_be / decode_cdf_type_le: one value of the type a tag names
decode_cdf_type(d, endian, data_type, what) ==
    IF data_type \notin DataTypeTags
    THEN Err(DecodeErr("CdfType", "Invalid CDF data_type", 0, data_type), d)
    ELSE MapOk(DecodeElements(d, VariantOf(data_type), endian, 1, what), LAMBDA v : v[1])

-----------------------------------------------------------------------------
(* The records.  A decoder is the list of its statements, in the order of   *)
(* the source:                                                              *)
(*   <<"off", f>>         let f = decode_version3_int4_int8(decoder)?;      *)
(*   <<"i4", f>>          let f = CdfInt4::decode_be(decoder)?;             *)
(*   <<"optoff", f, a>>   an offset f that is None when it reads as a       *)
(*   <<"str", f, n>>      let f = decode_string_from_numbytes(decoder, n)?; *)
(*   <<"check", f, e>>    if *f != e { return Err(CdfError::Decode(..)) }   *)
(*   <<"chain", f, T, h>> let f = get_record_vec::<R, T>(decoder, h)        *)
(*   <<"rest", f, a, b>>  the bytes left of the record after a header of a  *)
(*                        (version 2) or b (version 3) bytes                *)
(*   <<"do", name>>       the statements `name` stands for                  *)
(***************************************************************************)

\* T::decode_be for the record class T
RECURSIVE DecodeRecord(_, _)

PanicErr(what) == [NoErr EXCEPT !.kind = "Panic", !.field = what]
\* a loop that never ends: the call does not return
DivergesErr == [NoErr EXCEPT !.kind = "Diverges"]

\* u16::try_from(x: i32)
FitsU16(x) == x >= 0 /\ x <= 65535

\* [CdfInt4; n] read one after the other, as their values
Int4Vec(r0) == MapOk(r0, LAMBDA vs : [i \in 1..Len(vs) |-> vs[i].v])

\* for _ in 0..num_elements { value.push(decode_cdf_type_xx(decoder, data_type)?) }
decode_cdf_type_loop(d, endian, data_type, num_elements, what) ==
    IF num_elements <= 0 THEN Ok(<<>>, d)
    ELSE IF data_type \notin DataTypeTags THEN decode_cdf_type(d, endian, data_type, what)
    ELSE DecodeElements(d, VariantOf(data_type), endian, num_elements, what)

\* a field of the run that is read but kept only when `keep`
OptionalIf(s, name, keep) == Put(s, name, IF keep THEN Some(s.rec[name]) ELSE None)

\* zvdr_head: None when it is 0 or the version is below 2.2.0
GdrZvdrHead(s) ==
    OptionalIf(s, "zvdr_head",
               ~(s.rec.zvdr_head = I64Zero
                 \/ VersionLess(Unwrap(s.d.context.version), CdfVersionNew(2, 2, 0))))

\* eof: None when the version is below 2.1.0
GdrEof(s) ==
    OptionalIf(s, "eof", ~VersionLess(Unwrap(s.d.context.version), CdfVersionNew(2, 1, 0)))

\* let sizes_rvar = CdfInt4::decode_vec_be(decoder, &dim_rvar)?;
GdrSizes(s) ==
    IF s.rec.dim_rvar < 0 THEN Fail(s, TryFromIntErr, s.d)
    ELSE Try(s, "sizes_rvar",
             Int4Vec(DecodeElements(s.d, "Int4", "Big", s.rec.dim_rvar, What(s, "sizes_rvar"))))

\* GlobalDescriptorRecord::decode_be
GlobalDescriptorRecord_decode_be ==
    << <<"off", "record_size">>,
       <<"i4", "record_type">>, <<"check", "record_type", 2>>,
       <<"optoff", "rvdr_head", I64Zero>>,
       <<"off", "zvdr_head">>, <<"do", "GdrZvdrHead">>,
       <<"optoff", "adr_head", I64Zero>>,
       <<"off", "eof">>, <<"do", "GdrEof">>,
       <<"i4", "num_rvars">>, <<"i4", "num_attributes">>, <<"i4", "max_rvar">>,
       <<"i4", "dim_rvar">>, <<"i4", "num_zvars">>,
       <<"off", "uir_head">>,
       <<"i4", "rfu_c">>, <<"check_unnamed", "rfu_c", 0>>,
       <<"i4", "date_last_leapsecond_update">>,
       <<"i4", "rfu_e">>, <<"check_unnamed", "rfu_e", -1>>,
       <<"do", "GdrSizes">> >>

\* The copyright widths of CdfDescriptorRecord::decode_be.
CopyrightLenLegacy == 1945
CopyrightLen == 256

\* let encoding: CdfEncoding = CdfInt4::decode_be(decoder)?.try_into()?;
\* decoder.context.set_encoding(encoding.clone());
\* decoder.context.set_endianness(encoding.get_endian()?);
CdrEncoding(s) ==
    IF s.rec.encoding \notin EncodingTags
    THEN Fail(s, DecodeErr("CdfEncoding", "Invalid encoding integer", 0, s.rec.encoding), s.d)
    ELSE Then(get_endian(s.rec.encoding, set_encoding(s.d, s.rec.encoding)), LAMBDA e :
              IF ~e.ok THEN Fail(s, e.err, e.d)
              ELSE [s EXCEPT !.d = set_endianness(e.d, e.val)])

\* let flags = CdrFlags { .. }; decoder.context.set_row_majority(flags.row_major)
CdrFlags(s) ==
    Then(s.rec.flags, LAMBDA f :
         PutD(s, "flags", [row_major |-> f % 2 = 1,
                           single_file |-> (f \div 2) % 2 = 1,
                           has_checksum |-> (f \div 4) % 2 = 1,
                           md5_checksum |-> (f \div 8) % 2 = 1],
              set_row_majority(s.d, f % 2 = 1)))

\* CdfVersion::new(u16::try_from(version)?, u16::try_from(release)?,
\* u16::try_from(increment)?); decoder.context.set_version(..)
CdrVersion(s) ==
    IF ~(FitsU16(s.rec.version) /\ FitsU16(s.rec.release) /\ FitsU16(s.rec.increment))
    THEN Fail(s, TryFromIntErr, s.d)
    ELSE Then(CdfVersionNew(s.rec.version, s.rec.release, s.rec.increment), LAMBDA v :
              PutD(s, "cdf_version", v, set_version(s.d, v)))

\* the copyright, 1945 bytes wide below version 2.5.0 and 256 bytes from it on
CdrCopyright(s) ==
    Try(s, "copyright",
        decode_string_from_numbytes(
            s.d,
            IF VersionLess(s.rec.cdf_version, CdfVersionNew(2, 5, 0))
            THEN CopyrightLenLegacy ELSE CopyrightLen,
            What(s, "copyright")))

\* let gdr = GlobalDescriptorRecord::decode_be(decoder)?;
CdrGdr(s) == Try(s, "gdr", DecodeRecord("GDR", s.d))

\* CdfDescriptorRecord::decode_be
CdfDescriptorRecord_decode_be ==
    << <<"off", "record_size">>,
       <<"i4", "record_type">>, <<"check", "record_type", 1>>,
       <<"off", "gdr_offset">>,
       <<"i4", "version">>, <<"i4", "release">>,
       <<"i4", "encoding">>, <<"do", "CdrEncoding">>,
       <<"i4", "flags">>, <<"do", "CdrFlags">>,
       <<"i4", "rfu_a">>, <<"check", "rfu_a", 0>>,
       <<"i4", "rfu_b">>, <<"check", "rfu_b", 0>>,
       <<"i4", "increment">>, <<"do", "CdrVersion">>,
       <<"i4", "identifier">>,
       <<"i4", "rfu_e">>,
       <<"do", "CdrCopyright">>,
       <<"do", "CdrGdr">> >>

\* Vec::with_capacity(usize::try_from(*num_elements)?)
AedrCapacity(s) == IF s.rec.num_elements < 0 THEN Fail(s, TryFromIntErr, s.d) ELSE s

\* let endianness = decoder.context.get_encoding()?.get_endian()?; then the
\* entry's values, num_elements of them, in that byte order
AedrValue(s) ==
    Then(context_endianness(s.d), LAMBDA e :
         IF ~e.ok THEN Fail(s, e.err, e.d)
         ELSE Try(s, "value",
                  decode_cdf_type_loop(s.d, e.val, s.rec.data_type, s.rec.num_elements,
                                       What(s, "value"))))

\* if let CdfType::Char(_) = value[0].clone() { the chars collected into one string }
GrCharValue(s) ==
    IF Len(s.rec.value) = 0 THEN Fail(s, PanicErr("value[0]"), s.d)
    ELSE IF s.rec.value[1].t = "Char"
         THEN Put(s, "value",
                  <<from_slice_chars(SelectSeq(s.rec.value, LAMBDA v : v.t = "Char"))>>)
    ELSE s

\* The statements AttributeGREntryDescriptorRecord::decode_be and
\* AttributeZEntryDescriptorRecord::decode_be share
AEDRHeader(tag, next) ==
    << <<"off", "record_size">>,
       <<"i4", "record_type">>, <<"check", "record_type", tag>>,
       <<"optoff", next, I64Zero>>,
       <<"i4", "attr_num">>, <<"i4", "data_type">>, <<"i4", "num">>,
       <<"i4", "num_elements">>, <<"i4", "num_strings">>,
       <<"i4", "rfu_b">>, <<"check", "rfu_b", 0>>,
       <<"i4", "rfu_c">>, <<"check", "rfu_c", 0>>,
       <<"i4", "rfu_d">>, <<"check", "rfu_d", -1>>,
       <<"i4", "rfu_e">>, <<"check", "rfu_e", -1>>,
       <<"do", "AedrCapacity">>, <<"do", "AedrValue">> >>

\* AttributeGREntryDescriptorRecord::decode_be
AttributeGREntryDescriptorRecord_decode_be ==
    AEDRHeader(5, "agredr_next") \o << <<"do", "GrCharValue">> >>

\* AttributeZEntryDescriptorRecord::decode_be
AttributeZEntryDescriptorRecord_decode_be == AEDRHeader(9, "azedr_next")

\* RecordList::next_record: the field that points to the next record of the list
NextField(class) ==
    CASE class = "AGREDR" -> "agredr_next"
      [] class = "AZEDR" -> "azedr_next"
      [] class = "ADR" -> "adr_next"
      [] class = "RVDR" -> "rvdr_next"
      [] class = "ZVDR" -> "zvdr_next"
      [] class = "UIR" -> "uir_next"
      [] class = "VXR" -> "vxr_next"

\* A variant that seeks to the head of a list only and then decodes each
\* record where the one before left the cursor; the properties of the walk of
\* a list tell it from get_record_vec_loop.
RECURSIVE get_record_vec_loop_noseek(_, _, _, _, _)
get_record_vec_loop_noseek(class, d, next, result_vec, seen) ==
    IF I64IsNeg(next) THEN Err(TryFromIntErr, d)
    ELSE IF next \in seen THEN Err(DivergesErr, d)
    ELSE Then(DecodeRecord(class, IF result_vec = <<>> THEN SeekStart(d, PosOfU64(next))
                                  ELSE d), LAMBDA r :
              IF ~r.ok THEN r
              ELSE IF IsSome(r.val[NextField(class)])
                   THEN get_record_vec_loop_noseek(class, r.d, Unwrap(r.val[NextField(class)]),
                                                   Append(result_vec, r.val), seen \cup {next})
              ELSE Ok(Append(result_vec, r.val), r.d))

\* The loop of get_record_vec from the offset `next` on; `seen` holds the offsets
\* the loop has been at.  The file does not change, so a list that leads back to
\* one of them is walked forever.
RECURSIVE get_record_vec_loop(_, _, _, _, _)
get_record_vec_loop(class, d, next, result_vec, seen) ==
    IF I64IsNeg(next) THEN Err(TryFromIntErr, d)
    ELSE IF next \in seen THEN Err(DivergesErr, d)
    ELSE Then(DecodeRecord(class, SeekStart(d, PosOfU64(next))), LAMBDA r :
              IF ~r.ok THEN r
              ELSE IF IsSome(r.val[NextField(class)])
                   THEN get_record_vec_loop(class, r.d, Unwrap(r.val[NextField(class)]),
                                            Append(result_vec, r.val), seen \cup {next})
              ELSE Ok(Append(result_vec, r.val), r.d))

\* get_record_vec::<R, T>(decoder, head)
get_record_vec(class, d, head) == get_record_vec_loop(class, d, head, <<>>, {})

\* match &head { Some(head) => get_record_vec(decoder, head)?, None => vec![] }
Chain(s, name, class, head) ==
    IF IsSome(s.rec[head])
    THEN Try(s, name, get_record_vec(class, s.d, Unwrap(s.rec[head])))
    ELSE Put(s, name, <<>>)

\* The widths of the attribute name of AttributeDescriptorRecord::decode_be.
AdrNameLenV2 == 64
AdrNameLen == 256

\* let cdf_version = decoder.context.get_version()?;
AdrVersion(s) ==
    Then(get_ctx(s.d, "version"), LAMBDA v : IF v.ok THEN s ELSE Fail(s, v.err, s.d))

\* the name, 64 bytes wide below version 3 and 256 bytes from it on
AdrName(s) ==
    Try(s, "name",
        decode_string_from_numbytes(
            s.d,
            IF Unwrap(s.d.context.version)[1] < 3 THEN AdrNameLenV2 ELSE AdrNameLen,
            What(s, "name")))

\* AttributeDescriptorRecord::decode_be
AttributeDescriptorRecord_decode_be ==
    << <<"do", "AdrVersion">>,
       <<"off", "record_size">>,
       <<"i4", "record_type">>, <<"check", "record_type", 4>>,
       <<"optoff", "adr_next", I64Zero>>, <<"optoff", "agredr_head", I64Zero>>,
       <<"i4", "scope">>, <<"i4", "num">>, <<"i4", "num_gr_entries">>,
       <<"i4", "max_gr_entry">>,
       <<"i4", "rfu_a">>, <<"check", "rfu_a", 0>>,
       <<"optoff", "azedr_head", I64Zero>>,
       <<"i4", "num_z_entries">>, <<"i4", "max_z_entry">>,
       <<"i4", "rfu_e">>, <<"check", "rfu_e", -1>>,
       <<"do", "AdrName">>,
       <<"chain", "agredr_vec", "AGREDR", "agredr_head">>,
       <<"chain", "azedr_vec", "AZEDR", "azedr_head">> >>

-----------------------------------------------------------------------------
(* The variable records. *)

\* <CdfInt4 as Decodable>::decode_vec_be
CdfInt4_decode_vec_be(d, num_elements, what) ==
    IF num_elements < 0 THEN Err(TryFromIntErr, d)
    ELSE Int4Vec(DecodeElements(d, "Int4", "Big", num_elements, what))

\* let mut dim_variances = vec![false; usize::try_from(n)?];
\* for d in dim_variances.iter_mut() { if *CdfInt4::decode_be(decoder)? == -1 { *d = true } }
DimVariances(d, n, what) ==
    MapOk(CdfInt4_decode_vec_be(d, n, what), LAMBDA vs : [i \in 1..Len(vs) |-> vs[i] = -1])

\* a * b of two i32 stays an i32
MulFits(a, b) ==
    \/ a = 0 \/ b = 0
    \/ /\ a > -2147483647 /\ b > -2147483647
       /\ (IF a < 0 THEN 0 - a ELSE a) <= 2147483647 \div (IF b < 0 THEN 0 - b ELSE b)

\* .filter(|(v, _)| **v).map(|(_, s)| **s).product(), from index i on, times acc;
\* <<>> when a product leaves the i32
RECURSIVE ActiveProduct(_, _, _, _)
ActiveProduct(variances, sizes, i, acc) ==
    IF i > Len(variances) \/ i > Len(sizes) THEN <<acc>>
    ELSE IF ~variances[i] THEN ActiveProduct(variances, sizes, i + 1, acc)
    ELSE IF ~MulFits(acc, sizes[i]) THEN <<>>
    ELSE ActiveProduct(variances, sizes, i + 1, acc * sizes[i])

\* The width of a variable's name.
VdrNameLen == 256

\* let flags = ZVariableFlags { .. } / RVariableFlags { .. }
VdrFlags(s) ==
    Then(s.rec.flags, LAMBDA f :
         Put(s, "flags", [variance |-> f % 2 = 1,
                          has_padding |-> (f \div 2) % 2 = 1,
                          is_compressed |-> (f \div 4) % 2 = 1]))

\* A variant that takes 0 for the sentinel of cpr_spr_offset; the properties
\* of the optional fields tell it from VDRHeader.
VDRHeader_zeroSentinel(tag, next) ==
    << <<"off", "record_size">>,
       <<"i4", "record_type">>, <<"check", "record_type", tag>>,
       <<"optoff", next, I64Zero>>,
       <<"i4", "data_type">>, <<"i4", "max_record">>,
       <<"optoff", "vxr_head", I64Zero>>, <<"optoff", "vxr_tail", I64Zero>>,
       <<"i4", "flags">>, <<"do", "VdrFlags">>,
       <<"i4", "sparse_records">>,
       <<"i4", "rfu_b">>, <<"check", "rfu_b", 0>>,
       <<"i4", "rfu_c">>, <<"check", "rfu_c", -1>>,
       <<"i4", "rfu_f">>, <<"check", "rfu_f", -1>>,
       <<"i4", "num_elements">>, <<"i4", "num">>,
       <<"optoff", "cpr_spr_offset", I64Zero>>,
       <<"i4", "blocking_factor">>,
       <<"str", "name", VdrNameLen>> >>

\* The statements rVDR and zVDR share: record_size .. name
VDRHeader(tag, next) ==
    << <<"off", "record_size">>,
       <<"i4", "record_type">>, <<"check", "record_type", tag>>,
       <<"optoff", next, I64Zero>>,
       <<"i4", "data_type">>, <<"i4", "max_record">>,
       <<"optoff", "vxr_head", I64Zero>>, <<"optoff", "vxr_tail", I64Zero>>,
       <<"i4", "flags">>, <<"do", "VdrFlags">>,
       <<"i4", "sparse_records">>,
       <<"i4", "rfu_b">>, <<"check", "rfu_b", 0>>,
       <<"i4", "rfu_c">>, <<"check", "rfu_c", -1>>,
       <<"i4", "rfu_f">>, <<"check", "rfu_f", -1>>,
       <<"i4", "num_elements">>, <<"i4", "num">>,
       <<"optoff", "cpr_spr_offset", I64MinusOne>>,
       <<"i4", "blocking_factor">>,
       <<"str", "name", VdrNameLen>> >>

\* let pad_value = match endianness { Big => decode_vec_be(..)?, Little => decode_vec_le(..)? };
VdrPad(s) ==
    Then(context_endianness(s.d), LAMBDA e :
         IF ~e.ok THEN Fail(s, e.err, e.d)
         ELSE Try(s, "pad_value",
                  decode_vec(s.d, e.val, s.rec.data_type, s.rec.num_elements,
                             What(s, "pad_value"))))

\* decoder.context.set_num_dimension_zvariable(num_z_dims.clone())
ZvdrNumDims(s) == [s EXCEPT !.d = set_num_dimension_zvariable(s.d, s.rec.num_z_dims)]

\* let size_z_dims = CdfInt4::decode_vec_be(decoder, &num_z_dims)?;
\* decoder.context.set_size_dimension_zvariable(size_z_dims.clone())
ZvdrSizes(s) ==
    Then(CdfInt4_decode_vec_be(s.d, s.rec.num_z_dims, What(s, "size_z_dims")), LAMBDA r :
         IF ~r.ok THEN Fail(s, r.err, r.d)
         ELSE PutD(s, "size_z_dims", r.val, set_size_dimension_zvariable(r.d, r.val)))

ZvdrVariances(s) ==
    Try(s, "dim_variances", DimVariances(s.d, s.rec.num_z_dims, What(s, "dim_variances")))

\* A variant that multiplies the sizes of all dimensions, variant or not; the
\* properties of the variable records tell it from ZvdrVarData.
ZvdrVarData_allDims(s) ==
    Then(ActiveProduct([i \in 1..Len(s.rec.dim_variances) |-> TRUE], s.rec.size_z_dims, 1, 1),
         LAMBDA p :
         IF p = <<>> \/ ~MulFits(s.rec.num_elements, p[1])
         THEN Fail(s, PanicErr("attempt to multiply with overflow"), s.d)
         ELSE [s EXCEPT !.d = set_var_data_len(set_var_data_type(s.d, s.rec.data_type),
                                               s.rec.num_elements * p[1])])

\* let var_data_len = (*num_elements) * (size_active_dims);
\* decoder.context.set_var_data_type(..); decoder.context.set_var_data_len(..)
ZvdrVarData(s) ==
    Then(ActiveProduct(s.rec.dim_variances, s.rec.size_z_dims, 1, 1), LAMBDA p :
         IF p = <<>> \/ ~MulFits(s.rec.num_elements, p[1])
         THEN Fail(s, PanicErr("attempt to multiply with overflow"), s.d)
         ELSE [s EXCEPT !.d = set_var_data_len(set_var_data_type(s.d, s.rec.data_type),
                                               s.rec.num_elements * p[1])])

\* ZVariableDescriptorRecord::decode_be
ZVariableDescriptorRecord_decode_be ==
    VDRHeader(8, "zvdr_next")
    \o << <<"i4", "num_z_dims">>, <<"do", "ZvdrNumDims">>,
          <<"do", "ZvdrSizes">>, <<"do", "ZvdrVariances">>,
          <<"do", "VdrPad">>, <<"do", "ZvdrVarData">>,
          <<"chain", "vxr_vec", "VXR", "vxr_head">> >>

\* let num_r_dims = *decoder.context.get_num_dimension_rvariable()?; then the variances
RvdrVariances(s) ==
    Then(get_ctx(s.d, "num_r_dims"), LAMBDA n :
         IF ~n.ok THEN Fail(s, n.err, n.d)
         ELSE Try(s, "dim_variances", DimVariances(s.d, n.val, What(s, "dim_variances"))))

\* RVariableDescriptorRecord::decode_be
RVariableDescriptorRecord_decode_be ==
    VDRHeader(3, "rvdr_next")
    \o << <<"do", "RvdrVariances">>, <<"do", "VdrPad">>,
          <<"chain", "vxr_vec", "VXR", "vxr_head">> >>

\* VariableRecord::decode_be
VariableRecord_decode_be(d) ==
    Then(get_ctx(d, "var_data_type"), LAMBDA t :
    Then(get_ctx(d, "var_data_len"), LAMBDA n :
         IF ~t.ok THEN t
         ELSE IF ~n.ok THEN n
         ELSE Then(context_endianness(d), LAMBDA e :
                   IF ~e.ok THEN e
                   ELSE MapOk(decode_vec(d, e.val, t.val, n.val, <<"VVR", "data">>),
                              LAMBDA data : [data_type |-> t.val, data_len |-> n.val,
                                             data |-> data]))))

\* for _ in 0..num_records { records.push(VariableRecord::decode_be(decoder)?) }
RECURSIVE VariableRecords(_, _, _)
VariableRecords(d, num_records, records) ==
    IF Len(records) >= num_records THEN Ok(records, d)
    ELSE Then(VariableRecord_decode_be(d), LAMBDA r :
              IF ~r.ok THEN r ELSE VariableRecords(r.d, num_records, Append(records, r.val)))

\* let num_records = decoder.context.get_num_records()?; then the records
VvrRecords(s) ==
    Then(get_ctx(s.d, "num_records"), LAMBDA n :
         IF ~n.ok THEN Fail(s, n.err, n.d)
         ELSE Try(s, "records", VariableRecords(s.d, n.val, <<>>)))

\* A variant that goes on to the records whatever record_type holds; the
\* properties of the record types tell it from VariableValuesRecord_decode_be.
VariableValuesRecord_decode_be_unchecked ==
    << <<"off", "record_size">>,
       <<"i4", "record_type">>,
       <<"do", "VvrRecords">> >>

\* VariableValuesRecord::decode_be
VariableValuesRecord_decode_be ==
    << <<"off", "record_size">>,
       <<"i4", "record_type">>, <<"check", "record_type", 7>>,
       <<"do", "VvrRecords">> >>

\* let mut data = vec![0u8; n]; decoder.reader.read_exact(&mut data)?;
Bytes(s, name, n) == Try(s, name, ReadExact(s.d, n, What(s, name)))

\* let mut data = vec![0u8; usize::try_from(*compressed_size)?]; read_exact(&mut data)?
CvvrData(s) ==
    IF I64IsNeg(s.rec.compressed_size) THEN Fail(s, TryFromIntErr, s.d)
    ELSE Bytes(s, "data", PosOfU64(s.rec.compressed_size))

\* CompressedVariableValuesRecord::decode_be
CompressedVariableValuesRecord_decode_be ==
    << <<"off", "record_size">>,
       <<"i4", "record_type">>, <<"check", "record_type", 13>>,
       <<"i4", "rfu_a">>, <<"check", "rfu_a", 0>>,
       <<"off", "compressed_size">>, <<"do", "CvvrData">> >>

\* let num_data = if version.major < 3 { usize::try_from(*record_size)? - v2 }
\* else { usize::try_from(*record_size)? - v3 }; then the read of num_data bytes
Remainder(s, name, v2, v3) ==
    Then(get_ctx(s.d, "version"), LAMBDA v :
         IF ~v.ok THEN Fail(s, v.err, v.d)
         ELSE IF I64IsNeg(s.rec.record_size) THEN Fail(s, TryFromIntErr, s.d)
         ELSE IF I64IsSmall(s.rec.record_size)
                 /\ s.rec.record_size[2] < (IF v.val[1] < 3 THEN v2 ELSE v3)
              THEN Fail(s, PanicErr("attempt to subtract with overflow"), s.d)
         ELSE Bytes(s, name, PosOfU64(s.rec.record_size) - (IF v.val[1] < 3 THEN v2 ELSE v3)))

\* UnusedInternalRecord::decode_be
UnusedInternalRecord_decode_be ==
    << <<"off", "record_size">>,
       <<"i4", "record_type">>, <<"check", "record_type", -1>>,
       <<"optoff", "uir_next", I64Zero>>, <<"optoff", "uir_prev", I64Zero>>,
       <<"rest", "remainder", 16, 28>> >>

\* CompressedCdfRecord::decode_be
CompressedCdfRecord_decode_be ==
    << <<"off", "record_size">>,
       <<"i4", "record_type">>, <<"check", "record_type", 10>>,
       <<"off", "cpr_offset">>, <<"off", "uncompressed_size">>,
       <<"i4", "rfu_a">>, <<"check", "rfu_a", 0>>,
       <<"rest", "data", 20, 32>> >>

\* impl TryFrom<i32> for CdfCompressionKind
CompressionKinds == {0, 1, 2, 3, 5}
GzipKind == 5

\* let compression_type: CdfCompressionKind = compression_type.try_into()?;
CprKind(s) ==
    IF s.rec.compression_type \notin CompressionKinds
    THEN Fail(s, [NoErr EXCEPT !.kind = "Other", !.field = "CdfCompressionKind",
                               !.received = s.rec.compression_type], s.d)
    ELSE s

\* match &compression_type { Gzip => level == 0 is an error, k => level != 0 is an error }
CprLevel(s) ==
    IF s.rec.compression_type = GzipKind
    THEN IF s.rec.compression_level = 0
         THEN Fail(s, DecodeErr("CPR", "compression_level", 1, s.rec.compression_level), s.d)
         ELSE s
    ELSE IF s.rec.compression_level # 0
         THEN Fail(s, DecodeErr("CPR", "compression_level", 0, s.rec.compression_level), s.d)
    ELSE s

\* CompressedParametersRecord::decode_be
CompressedParametersRecord_decode_be ==
    << <<"off", "record_size">>,
       <<"i4", "record_type">>, <<"check", "record_type", 11>>,
       <<"i4", "compression_type">>, <<"do", "CprKind">>,
       <<"i4", "compressed_parameter_count">>,
       <<"i4", "rfu_a">>, <<"check", "rfu_a", 0>>,
       <<"i4", "compression_level">>, <<"do", "CprLevel">> >>

\* x != -1 then Some(x)
OptUnlessMinusOne(v, minus_one) == IF v # minus_one THEN Some(v) ELSE None

\* for val in offset_vec.iter_mut() { let x = decode_version3_int4_int8(decoder)?; .. }
RECURSIVE VxrOffsetVec(_, _, _)
VxrOffsetVec(d, n, offset_vec) ==
    IF Len(offset_vec) >= n THEN Ok(offset_vec, d)
    ELSE Then(decode_version3_int4_int8(d, <<"VXR", "offset_vec">>), LAMBDA r :
              IF ~r.ok THEN r
              ELSE VxrOffsetVec(r.d, n,
                                Append(offset_vec, OptUnlessMinusOne(r.val, I64MinusOne))))

\* last - first of two i32 stays an i32
SubFits(a, b) == IF b >= 0 THEN a >= -2147483647 - 1 + b ELSE a <= 2147483647 + b

\* A variant that leaves num_records as the context holds it; the properties
\* of the number of records of a VVR tell it from VxrChild.
VxrChild_keepCount(d, next, first, last) ==
    IF I64IsNeg(next) THEN Err(TryFromIntErr, d)
    ELSE Then(SeekStart(d, PosOfU64(next)), LAMBDA d1 :
         IF ~(IsSome(first) /\ IsSome(last))
         THEN Err(DecodeErr("VXR", "first and last", 0, 0), d1)
         ELSE IF ~SubFits(Unwrap(last), Unwrap(first))
              THEN Err(PanicErr("attempt to subtract with overflow"), d1)
         ELSE IF Unwrap(last) - Unwrap(first) < 0 THEN Err(TryFromIntErr, d1)
         ELSE DecodeRecord("VXRChild", d1))

\* the child at offset `next` holding the records first..last
VxrChild(d, next, first, last) ==
    IF I64IsNeg(next) THEN Err(TryFromIntErr, d)
    ELSE Then(SeekStart(d, PosOfU64(next)), LAMBDA d1 :
         IF ~(IsSome(first) /\ IsSome(last))
         THEN Err(DecodeErr("VXR", "first and last", 0, 0), d1)
         ELSE IF ~SubFits(Unwrap(last), Unwrap(first))
              THEN Err(PanicErr("attempt to subtract with overflow"), d1)
         ELSE IF Unwrap(last) - Unwrap(first) < 0 THEN Err(TryFromIntErr, d1)
         ELSE DecodeRecord("VXRChild", set_num_records(d1, Unwrap(last) - Unwrap(first))))

\* for i in 0..n { .. children.push(..) }: the children from index i on
RECURSIVE VxrChildrenFrom(_, _, _, _)
VxrChildrenFrom(d, rec, i, children) ==
    IF i > Len(rec.offset_vec) THEN Ok(children, d)
    ELSE IF ~IsSome(rec.offset_vec[i])
         THEN VxrChildrenFrom(d, rec, i + 1, Append(children, None))
    ELSE Then(VxrChild(d, Unwrap(rec.offset_vec[i]), rec.first_vec[i], rec.last_vec[i]),
              LAMBDA r :
                IF ~r.ok THEN r
                ELSE VxrChildrenFrom(r.d, rec, i + 1, Append(children, Some(r.val))))

\* Vec<Option<CdfInt4>>: each value other than -1
OptInt4Vec(r0) ==
    MapOk(r0, LAMBDA vs : [i \in 1..Len(vs) |-> OptUnlessMinusOne(vs[i], -1)])

\* vec![None; usize::try_from(*num_entries)?]
VxrCapacity(s) == IF s.rec.num_entries < 0 THEN Fail(s, TryFromIntErr, s.d) ELSE s

\* first_vec and last_vec: num_entries CdfInt4 each
VxrBounds(s, name) ==
    Try(s, name, OptInt4Vec(CdfInt4_decode_vec_be(s.d, s.rec.num_entries, What(s, name))))

VxrOffsets(s) == Try(s, "offset_vec", VxrOffsetVec(s.d, s.rec.num_entries, <<>>))

VxrChildren(s) == Try(s, "children", VxrChildrenFrom(s.d, s.rec, 1, <<>>))

\* VariableIndexRecord::decode_be
VariableIndexRecord_decode_be ==
    << <<"off", "record_size">>,
       <<"i4", "record_type">>, <<"check", "record_type", 6>>,
       <<"optoff", "vxr_next", I64Zero>>,
       <<"i4", "num_entries">>, <<"i4", "num_used_entries">>,
       <<"do", "VxrCapacity">>,
       <<"do", "VxrFirst">>, <<"do", "VxrLast">>, <<"do", "VxrOffsets">>,
       <<"do", "VxrChildren">> >>

\* The statements a name of <<"do", name>> stands for.
Do(s, name) ==
    CASE name = "GdrZvdrHead" -> GdrZvdrHead(s)
      [] name = "GdrEof" -> GdrEof(s)
      [] name = "GdrSizes" -> GdrSizes(s)
      [] name = "CdrEncoding" -> CdrEncoding(s)
      [] name = "CdrFlags" -> CdrFlags(s)
      [] name = "CdrVersion" -> CdrVersion(s)
      [] name = "CdrCopyright" -> CdrCopyright(s)
      [] name = "CdrGdr" -> CdrGdr(s)
      [] name = "AedrCapacity" -> AedrCapacity(s)
      [] name = "AedrValue" -> AedrValue(s)
      [] name = "GrCharValue" -> GrCharValue(s)
      [] name = "AdrVersion" -> AdrVersion(s)
      [] name = "AdrName" -> AdrName(s)
      [] name = "VdrFlags" -> VdrFlags(s)
      [] name = "VdrPad" -> VdrPad(s)
      [] name = "ZvdrNumDims" -> ZvdrNumDims(s)
      [] name = "ZvdrSizes" -> ZvdrSizes(s)
      [] name = "ZvdrVariances" -> ZvdrVariances(s)
      [] name = "ZvdrVarData" -> ZvdrVarData(s)
      [] name = "RvdrVariances" -> RvdrVariances(s)
      [] name = "VvrRecords" -> VvrRecords(s)
      [] name = "CvvrData" -> CvvrData(s)
      [] name = "CprKind" -> CprKind(s)
      [] name = "CprLevel" -> CprLevel(s)
      [] name = "VxrCapacity" -> VxrCapacity(s)
      [] name = "VxrFirst" -> VxrBounds(s, "first_vec")
      [] name = "VxrLast" -> VxrBounds(s, "last_vec")
      [] name = "VxrOffsets" -> VxrOffsets(s)
      [] name = "VxrChildren" -> VxrChildren(s)

\* One statement f of a decoder, run in the state s.
Statement(s, f) ==
    CASE f[1] = "off" ->
           Try(s, f[2], decode_version3_int4_int8(s.d, What(s, f[2])))
      [] f[1] = "i4" ->
           Try(s, f[2], CdfInt4_decode_be(s.d, What(s, f[2])))
      [] f[1] = "optoff" ->
           Try(s, f[2], MapOk(decode_version3_int4_int8(s.d, What(s, f[2])),
                              LAMBDA v : IF v # f[3] THEN Some(v) ELSE None))
      [] f[1] = "str" ->
           Try(s, f[2], decode_string_from_numbytes(s.d, f[3], What(s, f[2])))
      [] f[1] = "check" ->
           IF s.rec[f[2]] # f[3]
           THEN Fail(s, DecodeErr(s.class, f[2], f[3], s.rec[f[2]]), s.d)
           ELSE s
      [] f[1] = "check_unnamed" ->
           IF s.rec[f[2]] # f[3]
           THEN Fail(s, DecodeErr("", f[2], f[3], s.rec[f[2]]), s.d)
           ELSE s
      [] f[1] = "chain" -> Chain(s, f[2], f[3], f[4])
      [] f[1] = "rest" -> Remainder(s, f[2], f[3], f[4])
      [] f[1] = "do" -> Do(s, f[2])

\* A statement, unless an earlier one returned an error.
Step(s, f) == IF s.ok THEN Statement(s, f) ELSE s

\* The statements lo..hi in order, up to the first that returns an error.
RECURSIVE Run(_, _, _, _)
Run(s0, statements, lo, hi) ==
    CASE lo > hi -> s0
      [] lo = hi ->
           CHOOSE out \in {Step(s, statements[lo]) : s \in {s0}} : TRUE
      [] lo < hi /\ hi > Len(statements) - 3 ->
           CHOOSE out \in {Step(s, statements[hi]) :
                              s \in {Run(s0, statements, lo, hi - 1)}} : TRUE
      [] lo < hi /\ hi <= Len(statements) - 3 ->
           CHOOSE out \in {Run(s, statements, (lo + hi) \div 2 + 1, hi) :
                              s \in {Run(s0, statements, lo, (lo + hi) \div 2)}} : TRUE

\* The decoder of each record class.
Decoder(class) ==
    CASE class = "CDR" -> CdfDescriptorRecord_decode_be
      [] class = "GDR" -> GlobalDescriptorRecord_decode_be
      [] class = "ADR" -> AttributeDescriptorRecord_decode_be
      [] class = "AGREDR" -> AttributeGREntryDescriptorRecord_decode_be
      [] class = "AZEDR" -> AttributeZEntryDescriptorRecord_decode_be
      [] class = "RVDR" -> RVariableDescriptorRecord_decode_be
      [] class = "ZVDR" -> ZVariableDescriptorRecord_decode_be
      [] class = "VXR" -> VariableIndexRecord_decode_be
      [] class = "VVR" -> VariableValuesRecord_decode_be
      [] class = "CVVR" -> CompressedVariableValuesRecord_decode_be
      [] class = "UIR" -> UnusedInternalRecord_decode_be
      [] class = "CCR" -> CompressedCdfRecord_decode_be
      [] class = "CPR" -> CompressedParametersRecord_decode_be

\* A variant that seeks back by 12 bytes whatever the version; the properties
\* of the children of an index record tell it from VxrChildDispatch.
VxrChildDispatch_back12(s) ==
    Then(get_ctx(s.d, "version"), LAMBDA v :
         IF ~v.ok THEN v
         ELSE Then(SeekRelative(s.d, -12), LAMBDA back :
                   IF ~back.ok THEN back
                   ELSE IF s.rec.record_type \in {6, 7, 13}
                        THEN DecodeRecord(CASE s.rec.record_type = 6 -> "VXR"
                                            [] s.rec.record_type = 7 -> "VVR"
                                            [] s.rec.record_type = 13 -> "CVVR",
                                          back.d)
                   ELSE Err(DecodeErr("VXR", "record_type", 6, s.rec.record_type), back.d)))

\* We peeked, so now we seek back; then the decoder the record type names
VxrChildDispatch(s) ==
    Then(get_ctx(s.d, "version"), LAMBDA v :
         IF ~v.ok THEN v
         ELSE Then(SeekRelative(s.d, IF v.val[1] >= 3 THEN -12 ELSE -8), LAMBDA back :
                   IF ~back.ok THEN back
                   ELSE IF s.rec.record_type \in {6, 7, 13}
                        THEN DecodeRecord(CASE s.rec.record_type = 6 -> "VXR"
                                            [] s.rec.record_type = 7 -> "VVR"
                                            [] s.rec.record_type = 13 -> "CVVR",
                                          back.d)
                   ELSE Err(DecodeErr("VXR", "record_type", 6, s.rec.record_type), back.d)))

\* VariableIndexRecordChild::decode_be: peek at the record type, seek back, decode
VariableIndexRecordChild_decode_be(d) ==
    Then(Run(Start("VXRChild", d), << <<"off", "record_size">>, <<"i4", "record_type">> >>, 1, 2),
         LAMBDA s : IF ~s.ok THEN Finish(s) ELSE VxrChildDispatch(s))

DecodeRecord(class, d) ==
    IF class = "VXRChild" THEN VariableIndexRecordChild_decode_be(d)
    ELSE Finish(Run(Start(class, d), Decoder(class), 1, Len(Decoder(class))))

-----------------------------------------------------------------------------
(* The files the decoder is run on.  A file is laid out as the two magic    *)
(* words and a list of sections; a section is a list of items, each a       *)
(* 4-byte integer, an offset of the width its version gives, the offset of  *)
(* another section, the section's own size, or raw bytes.                   *)

Enc4(x) == <<(x \div 16777216) % 256, (x \div 65536) % 256, (x \div 256) % 256, x % 256>>
EncU32(w) == <<w[1] \div 256, w[1] % 256, w[2] \div 256, w[2] % 256>>
Enc8(v) == Enc4(v[1]) \o Enc4(v[2])
EncOff(major, v) == IF major >= 3 THEN Enc8(v) ELSE Enc4(v[2])
Small64(n) == <<0, n>>

I4(v) == <<"i4", v>>
Off(v) == <<"off", v>>
Ref(k) == <<"ref", k>>
OwnSize == <<"size">>
Raw(b) == <<"raw", b>>

ItemLen(major, it) ==
    CASE it[1] = "i4" -> 4
      [] it[1] = "raw" -> Len(it[2])
      [] OTHER -> IF major >= 3 THEN 8 ELSE 4

RECURSIVE SecLenFrom(_, _)
SecLenFrom(sec, i) ==
    IF i > Len(sec.items) THEN 0 ELSE ItemLen(sec.major, sec.items[i]) + SecLenFrom(sec, i + 1)
SecLen(sec) == SecLenFrom(sec, 1)

MagicLen == 8

RECURSIVE SecOff(_, _)
SecOff(secs, k) == IF k <= 1 THEN MagicLen ELSE SecOff(secs, k - 1) + SecLen(secs[k - 1])

ItemBytes(secs, k, it) ==
    LET major == secs[k].major
    IN  CASE it[1] = "i4" -> Enc4(it[2])
          [] it[1] = "raw" -> it[2]
          [] it[1] = "off" -> EncOff(major, it[2])
          [] it[1] = "ref" -> EncOff(major, IF it[2] = 0 THEN I64Zero
                                            ELSE Small64(SecOff(secs, it[2])))
          [] it[1] = "size" -> EncOff(major, Small64(SecLen(secs[k])))

RECURSIVE SecBytesFrom(_, _, _)
SecBytesFrom(secs, k, i) ==
    IF i > Len(secs[k].items) THEN <<>>
    ELSE ItemBytes(secs, k, secs[k].items[i]) \o SecBytesFrom(secs, k, i + 1)

RECURSIVE Layout(_, _)
Layout(secs, k) ==
    IF k > Len(secs) THEN <<>> ELSE SecBytesFrom(secs, k, 1) \o Layout(secs, k + 1)

FileOf(m1, m2, secs) == EncU32(m1) \o EncU32(m2) \o Layout(secs, 1)

Prefix(b, n) == IF n < Len(b) THEN SubSeq(b, 1, n) ELSE b

Str(text, n) == text \o Zeros(n - Len(text))
Ptr(p, auto) == IF p = <<"auto">> THEN auto ELSE p
Auto == <<"auto">>
I4s(vs) == [i \in 1..Len(vs) |-> I4(vs[i])]

\* the layout CdfDescriptorRecord::decode_be reads; its first two offsets have
\* the width the magic word gives
CdrSec(p) ==
    [major |-> p.hint,
     items |-> <<OwnSize, I4(p.type), Ptr(p.gdr, Ref(3))>>
               \o I4s(<<p.version, p.release, p.encoding, p.flags, p.rfu_a, p.rfu_b,
                        p.increment, p.identifier, p.rfu_e>>)
               \o <<Raw(Str(<<67, 68, 70>>, p.copyright_len))>>]

CdrParams == [hint |-> 3, type |-> 1, gdr |-> Auto, version |-> 3, release |-> 9,
              encoding |-> 1, flags |-> 3, rfu_a |-> 0, rfu_b |-> 0, increment |-> 0,
              identifier |-> -1, rfu_e |-> -1, copyright_len |-> CopyrightLen]

\* the layout GlobalDescriptorRecord::decode_be reads
GdrSec(p) ==
    [major |-> p.major,
     items |-> <<OwnSize, I4(p.type), p.rvdr_head, p.zvdr_head, p.adr_head, Off(p.eof)>>
               \o I4s(<<p.num_rvars, p.num_attributes, p.max_rvar, p.dim_rvar, p.num_zvars>>)
               \o <<p.uir_head>>
               \o I4s(<<p.rfu_c, p.date, p.rfu_e>>)
               \o I4s(p.sizes_rvar)]

GdrParams == [major |-> 3, type |-> 2, rvdr_head |-> Ref(0), zvdr_head |-> Ref(0),
              adr_head |-> Ref(0), eof |-> Small64(4096), num_rvars |-> 0,
              num_attributes |-> 0, max_rvar |-> -1, dim_rvar |-> 0, num_zvars |-> 0,
              uir_head |-> Ref(0), rfu_c |-> 0, date |-> 20170101, rfu_e |-> -1,
              sizes_rvar |-> <<>>]

\* the layout AttributeDescriptorRecord::decode_be reads
AdrSec(p) ==
    [major |-> p.major,
     items |-> <<OwnSize, I4(p.type), p.adr_next, p.agredr_head>>
               \o I4s(<<p.scope, p.num, p.num_gr_entries, p.max_gr_entry, p.rfu_a>>)
               \o <<p.azedr_head>>
               \o I4s(<<p.num_z_entries, p.max_z_entry, p.rfu_e>>)
               \o <<Raw(Str(<<65>>, IF p.major < 3 THEN AdrNameLenV2 ELSE AdrNameLen))>>]

AdrParams == [major |-> 3, type |-> 4, adr_next |-> Ref(0), agredr_head |-> Ref(0),
              scope |-> 1, num |-> 0, num_gr_entries |-> 0, max_gr_entry |-> -1,
              rfu_a |-> 0, azedr_head |-> Ref(0), num_z_entries |-> 0,
              max_z_entry |-> -1, rfu_e |-> -1]

\* the layout the attribute entry decoders read (tag 5: AGREDR, tag 9: AZEDR)
AedrSec(p) ==
    [major |-> p.major,
     items |-> <<OwnSize, I4(p.type), p.next>>
               \o I4s(<<p.attr_num, p.data_type, p.num, p.num_elements, p.num_strings,
                        p.rfu_b, p.rfu_c, p.rfu_d, p.rfu_e>>)
               \o <<Raw(p.value)>>]

AedrParams == [major |-> 3, type |-> 5, next |-> Ref(0), attr_num |-> 0, data_type |-> 2,
               num |-> 0, num_elements |-> 2, num_strings |-> 0, rfu_b |-> 0,
               rfu_c |-> 0, rfu_d |-> -1, rfu_e |-> -1, value |-> <<1, 2, 3, 4>>]


\* the layout the variable descriptor decoders read (tag 3: rVDR, tag 8: zVDR);
\* `dims` is what follows the name: for a zVDR num_z_dims, the sizes and the
\* variances, for an rVDR the variances
VdrSec(p) ==
    [major |-> p.major,
     items |-> <<OwnSize, I4(p.type), p.next>>
               \o I4s(<<p.data_type, p.max_record>>)
               \o <<p.vxr_head, p.vxr_tail>>
               \o I4s(<<p.flags, p.sparse_records, p.rfu_b, p.rfu_c, p.rfu_f,
                        p.num_elements, p.num>>)
               \o <<Off(p.cpr_spr_offset), I4(p.blocking_factor),
                    Raw(Str(<<86>>, VdrNameLen))>>
               \o I4s(p.dims)
               \o <<Raw(p.pad_value)>>]

VdrParams == [major |-> 3, type |-> 8, next |-> Ref(0), data_type |-> 2, max_record |-> 1,
              vxr_head |-> Ref(0), vxr_tail |-> Ref(0), flags |-> 3, sparse_records |-> 0,
              rfu_b |-> 0, rfu_c |-> -1, rfu_f |-> -1, num_elements |-> 1, num |-> 0,
              cpr_spr_offset |-> I64MinusOne, blocking_factor |-> 0,
              dims |-> <<1, 2, -1>>, pad_value |-> <<1, 2>>]

\* the layout VariableIndexRecord::decode_be reads
VxrSec(p) ==
    [major |-> p.major,
     items |-> <<OwnSize, I4(p.type), p.next, I4(p.num_entries), I4(p.num_used_entries)>>
               \o I4s(p.first) \o I4s(p.last) \o p.offsets]

VxrParams == [major |-> 3, type |-> 6, next |-> Ref(0), num_entries |-> 2,
              num_used_entries |-> 1, first |-> <<0, -1>>, last |-> <<2, -1>>,
              offsets |-> <<Ref(3), Off(I64MinusOne)>>]

\* the layout VariableValuesRecord::decode_be reads
VvrSec(p) == [major |-> p.major, items |-> <<OwnSize, I4(p.type), Raw(p.data)>>]

VvrParams == [major |-> 3, type |-> 7, data |-> <<1, 2, 3, 4, 5, 6, 7, 8>>]

\* the layout CompressedVariableValuesRecord::decode_be reads
CvvrSec(p) ==
    [major |-> p.major,
     items |-> <<OwnSize, I4(p.type), I4(p.rfu_a), Off(Small64(Len(p.data))), Raw(p.data)>>]

CvvrParams == [major |-> 3, type |-> 13, rfu_a |-> 0, data |-> <<31, 139, 8>>]

\* the layout UnusedInternalRecord::decode_be reads
UirSec(p) ==
    [major |-> p.major,
     items |-> <<OwnSize, I4(p.type), p.next, p.prev, Raw(p.data)>>]

UirParams == [major |-> 3, type |-> -1, next |-> Ref(0), prev |-> Ref(0),
              data |-> <<0, 0, 0, 0>>]

\* the layout CompressedCdfRecord::decode_be reads
CcrSec(p) ==
    [major |-> p.major,
     items |-> <<OwnSize, I4(p.type), p.cpr_offset, Off(p.uncompressed_size), I4(p.rfu_a),
                 Raw(p.data)>>]

CcrParams == [major |-> 3, type |-> 10, cpr_offset |-> Ref(0),
              uncompressed_size |-> Small64(64), rfu_a |-> 0, data |-> <<31, 139, 8, 0>>]

\* the layout CompressedParametersRecord::decode_be reads
CprSec(p) ==
    [major |-> p.major,
     items |-> <<OwnSize, I4(p.type)>>
               \o I4s(<<p.compression_type, p.compressed_parameter_count, p.rfu_a,
                        p.compression_level>>)]

CprParams == [major |-> 3, type |-> 11, compression_type |-> 5,
              compressed_parameter_count |-> 1, rfu_a |-> 0, compression_level |-> 6]

(* A whole file: magic, CDR, a gap, GDR, then every ADR followed by its      *)
(* AGREDRs and its AZEDRs, then further sections.  A pointer left Auto is    *)
(* the offset of the record the CDF format makes it point to.                *)

BlockLen(a) == 1 + Len(a.gr) + Len(a.z)

RECURSIVE AdrIndex(_, _)
AdrIndex(adrs, i) == IF i <= 1 THEN 4 ELSE AdrIndex(adrs, i - 1) + BlockLen(adrs[i - 1])

ExtraIndex(sc, j) == AdrIndex(sc.adrs, Len(sc.adrs) + 1) + j - 1
Extra(j) == <<"extra", j>>
Resolve(sc, p, auto) ==
    IF p = Auto THEN auto
    ELSE IF p[1] = "extra" THEN Ref(ExtraIndex(sc, p[2]))
    ELSE p

AedrChain(sc, list, first) ==
    [k \in 1..Len(list) |->
       AedrSec([list[k] EXCEPT
                  !.next = Resolve(sc, @, Ref(IF k < Len(list) THEN first + k ELSE 0))])]

AdrBlock(sc, i) ==
    LET a == sc.adrs[i]
        idx == AdrIndex(sc.adrs, i)
        adr == [a.adr EXCEPT
                  !.adr_next = Resolve(sc, @, Ref(IF i < Len(sc.adrs) THEN idx + BlockLen(a)
                                                  ELSE 0)),
                  !.agredr_head = Resolve(sc, @, Ref(IF Len(a.gr) > 0 THEN idx + 1 ELSE 0)),
                  !.azedr_head = Resolve(sc, @, Ref(IF Len(a.z) > 0 THEN idx + Len(a.gr) + 1
                                                    ELSE 0))]
    IN  <<AdrSec(adr)>> \o AedrChain(sc, a.gr, idx + 1) \o AedrChain(sc, a.z, idx + Len(a.gr) + 1)

RECURSIVE AdrBlocks(_, _)
AdrBlocks(sc, i) == IF i > Len(sc.adrs) THEN <<>> ELSE AdrBlock(sc, i) \o AdrBlocks(sc, i + 1)

Sections(sc) ==
    LET g == [sc.gdr EXCEPT
                  !.adr_head = Resolve(sc, @, Ref(IF Len(sc.adrs) > 0 THEN 4 ELSE 0)),
                  !.rvdr_head = Resolve(sc, @, Ref(0)),
                  !.zvdr_head = Resolve(sc, @, Ref(0)),
                  !.uir_head = Resolve(sc, @, Ref(0))]
    IN  <<CdrSec(sc.cdr), [major |-> 3, items |-> <<Raw(sc.gap)>>], GdrSec(g)>>
        \o AdrBlocks(sc, 1) \o sc.extra

FileOfScenario(sc) ==
    Then(Sections(sc), LAMBDA secs :
         IF sc.trunc >= 0 THEN Prefix(FileOf(sc.m1, sc.m2, secs), sc.trunc)
         ELSE FileOf(sc.m1, sc.m2, secs))

-----------------------------------------------------------------------------
(* Cdf::decode_be *)

Magic3 == <<52723, 1>>          \* 0xcdf30001
Magic26 == <<52722, 24578>>     \* 0xcdf26002
Magic2 == <<0, 65535>>          \* 0x0000ffff
MagicUncompressed == <<0, 65535>>  \* 0x0000ffff
MagicCompressed == <<52428, 1>>    \* 0xcccc0001

\* A variant that takes 0xcdf26002 for a 2.0 file; the properties of the magic
\* words tell it from MagicVersion.
MagicVersionCoarse(m1) ==
    CASE m1 = <<52723, 1>> -> Some(CdfVersionNew(3, 0, 0))
      [] m1 = <<52722, 24578>> -> Some(CdfVersionNew(2, 0, 0))
      [] m1 = <<0, 65535>> -> Some(CdfVersionNew(2, 0, 0))
      [] OTHER -> None

\* the version the first magic word hints at
MagicVersion(m1) ==
    CASE m1 = Magic3 -> Some(CdfVersionNew(3, 0, 0))
      [] m1 = Magic26 -> Some(CdfVersionNew(2, 6, 0))
      [] m1 = Magic2 -> Some(CdfVersionNew(2, 0, 0))
      [] OTHER -> None

MagicCompression(m2) ==
    CASE m2 = MagicUncompressed -> Some(FALSE)
      [] m2 = MagicCompressed -> Some(TRUE)
      [] OTHER -> None

\* The two magic words: both are read, then the first is matched, the version
\* it hints at is set, then the second is matched.
DecodeMagic(d) ==
    Then(CdfUint4_decode_be(d, <<"magic", "m1">>), LAMBDA m1 :
    IF ~m1.ok THEN m1
    ELSE Then(CdfUint4_decode_be(m1.d, <<"magic", "m2">>), LAMBDA m2 :
         IF ~m2.ok THEN m2
         ELSE IF ~IsSome(MagicVersion(m1.val)) THEN Err(InvalidMagicNumber(m1.val), m2.d)
         ELSE IF ~IsSome(MagicCompression(m2.val))
              THEN Err(InvalidMagicNumber(m2.val),
                       set_version(m2.d, Unwrap(MagicVersion(m1.val))))
         ELSE Ok(Unwrap(MagicCompression(m2.val)),
                 set_version(m2.d, Unwrap(MagicVersion(m1.val))))))

\* the longest list the model lets a loop of Cdf::decode_be collect
MaxChain == 5

\* `return Err(e)` / the `?` of Cdf::decode_be
Return(r) == /\ pc' = "done"
             /\ result' = Some(r.err)
             /\ decoder' = r.d

ReadMagic ==
    /\ pc = "magic"
    /\ \E r \in {DecodeMagic(decoder)} :
           IF r.ok
           THEN /\ is_compressed' = Some(r.val)
                /\ decoder' = r.d
                /\ pc' = "cdr"
                /\ UNCHANGED result
           ELSE Return(r) /\ UNCHANGED is_compressed
    /\ UNCHANGED <<file, fill, cdr, gdr, adr_vec, agredr_vec, azedr_vec, chain_next,
                   adr_idx, cls, record>>

DecodeCdr ==
    /\ pc = "cdr"
    /\ \E r \in {DecodeRecord("CDR", decoder)} :
           IF r.ok
           THEN /\ cdr' = Some(r.val)
                /\ decoder' = r.d
                /\ pc' = "gdr"
                /\ UNCHANGED result
           ELSE Return(r) /\ UNCHANGED cdr
    /\ UNCHANGED <<file, fill, is_compressed, gdr, adr_vec, agredr_vec, azedr_vec,
                   chain_next, adr_idx, cls, record>>

DecodeGdr ==
    /\ pc = "gdr"
    /\ \E r \in {DecodeRecord("GDR",
                    SeekStart(decoder, PosOfU64(Unwrap(cdr).gdr_offset)))} :
           IF r.ok
           THEN /\ gdr' = Some(r.val)
                /\ decoder' = r.d
                /\ chain_next' = r.val.adr_head
                /\ pc' = "adr"
                /\ UNCHANGED result
           ELSE Return(r) /\ UNCHANGED <<gdr, chain_next>>
    /\ UNCHANGED <<file, fill, is_compressed, cdr, adr_vec, agredr_vec, azedr_vec,
                   adr_idx, cls, record>>

\* one turn of the loop over the ADR list
AdrStep ==
    /\ pc = "adr"
    /\ IsSome(chain_next)
    /\ Len(adr_vec) < MaxChain
    /\ \E r \in {DecodeRecord("ADR",
                    SeekStart(decoder, PosOfU64(Unwrap(chain_next))))} :
           IF r.ok
           THEN /\ adr_vec' = Append(adr_vec, r.val)
                /\ decoder' = r.d
                /\ chain_next' = r.val.adr_next
                /\ UNCHANGED <<pc, result>>
           ELSE Return(r) /\ UNCHANGED <<adr_vec, chain_next>>
    /\ UNCHANGED <<file, fill, is_compressed, cdr, gdr, agredr_vec, azedr_vec,
                   adr_idx, cls, record>>

AdrDone ==
    /\ pc = "adr"
    /\ ~IsSome(chain_next)
    /\ pc' = "agredr"
    /\ adr_idx' = 1
    /\ UNCHANGED <<file, fill, decoder, is_compressed, cdr, gdr, adr_vec, agredr_vec,
                   azedr_vec, chain_next, result, cls, record>>

\* One turn of the inner loop of `for adr in adr_vec.iter()`: the record at the
\* head of adr_vec[adr_idx]'s list, or the one chain_next points to.  `step`
\* is what the turn leaves: the error, or the record and the loop variables.
EntryStep(class, head) ==
    LET cur == IF IsSome(chain_next) THEN chain_next ELSE adr_vec[adr_idx][head]
    IN  IF ~IsSome(cur)
        THEN [ok |-> TRUE, pushed |-> <<>>, d |-> decoder, err |-> NoErr,
              next |-> None, idx |-> adr_idx + 1]
        ELSE Then(DecodeRecord(class, SeekStart(decoder, PosOfU64(Unwrap(cur)))), LAMBDA r :
                  IF ~r.ok
                  THEN [ok |-> FALSE, pushed |-> <<>>, d |-> r.d, err |-> r.err,
                        next |-> None, idx |-> adr_idx]
                  ELSE [ok |-> TRUE, pushed |-> <<r.val>>, d |-> r.d, err |-> NoErr,
                        next |-> r.val[NextField(class)],
                        idx |-> IF IsSome(r.val[NextField(class)]) THEN adr_idx
                                ELSE adr_idx + 1])

AgredrStep ==
    /\ pc = "agredr"
    /\ adr_idx <= Len(adr_vec)
    /\ Len(agredr_vec) < MaxChain
    /\ \E t \in {EntryStep("AGREDR", "agredr_head")} :
           IF t.ok
           THEN /\ agredr_vec' = agredr_vec \o t.pushed
                /\ decoder' = t.d
                /\ chain_next' = t.next
                /\ adr_idx' = t.idx
                /\ UNCHANGED <<pc, result>>
           ELSE Return(t) /\ UNCHANGED <<agredr_vec, chain_next, adr_idx>>
    /\ UNCHANGED <<file, fill, is_compressed, cdr, gdr, adr_vec, azedr_vec, cls, record>>

AgredrDone ==
    /\ pc = "agredr"
    /\ adr_idx > Len(adr_vec)
    /\ pc' = "azedr"
    /\ adr_idx' = 1
    /\ UNCHANGED <<file, fill, decoder, is_compressed, cdr, gdr, adr_vec, agredr_vec,
                   azedr_vec, chain_next, result, cls, record>>

AzedrStep ==
    /\ pc = "azedr"
    /\ adr_idx <= Len(adr_vec)
    /\ Len(azedr_vec) < MaxChain
    /\ \E t \in {EntryStep("AZEDR", "azedr_head")} :
           IF t.ok
           THEN /\ azedr_vec' = azedr_vec \o t.pushed
                /\ decoder' = t.d
                /\ chain_next' = t.next
                /\ adr_idx' = t.idx
                /\ UNCHANGED <<pc, result>>
           ELSE Return(t) /\ UNCHANGED <<azedr_vec, chain_next, adr_idx>>
    /\ UNCHANGED <<file, fill, is_compressed, cdr, gdr, adr_vec, agredr_vec, cls, record>>

\* Ok(Cdf { is_compressed, cdr, gdr, adr_vec, agredr_vec, azedr_vec })
Finished ==
    /\ pc = "azedr"
    /\ adr_idx > Len(adr_vec)
    /\ pc' = "done"
    /\ result' = Some(NoErr)
    /\ UNCHANGED <<file, fill, decoder, is_compressed, cdr, gdr, adr_vec, agredr_vec,
                   azedr_vec, chain_next, adr_idx, cls, record>>

\* T::decode_be(&mut decoder) of one record, on a decoder whose context the
\* caller has set
DecodeOne ==
    /\ pc = "record"
    /\ \E r \in {DecodeRecord(cls, decoder)} :
           /\ pc' = "done"
           /\ decoder' = r.d
           /\ result' = Some(r.err)
           /\ record' = IF r.ok THEN Some(r.val) ELSE None
    /\ UNCHANGED <<file, fill, is_compressed, cdr, gdr, adr_vec, agredr_vec, azedr_vec,
                   chain_next, adr_idx, cls>>

-----------------------------------------------------------------------------
(* The files of the model. *)

HintMajor(m1) == IF IsSome(MagicVersion(m1)) THEN Unwrap(MagicVersion(m1))[1] ELSE 3

\* an attribute entry of two Int2 values, and one of three characters
Int2Entry(major, tag) == [AedrParams EXCEPT !.major = major, !.type = tag]
CharEntry(major, tag) ==
    [AedrParams EXCEPT !.major = major, !.type = tag, !.data_type = 51,
                       !.num_elements = 3, !.value = <<97, 98, 99>>]

\* an attribute with the entries gr and z, its counts as the format has them
Attribute(major, num, gr, z) ==
    [adr |-> [AdrParams EXCEPT !.major = major, !.adr_next = Auto, !.agredr_head = Auto,
                               !.azedr_head = Auto, !.num = num,
                               !.num_gr_entries = Len(gr), !.max_gr_entry = Len(gr) - 1,
                               !.num_z_entries = Len(z), !.max_z_entry = Len(z) - 1],
     gr |-> gr, z |-> z]

AdrShapes == 0..2
Attributes(major, shape) ==
    CASE shape = 0 -> <<>>
      [] shape = 1 -> <<Attribute(major, 0, <<Int2Entry(major, 5)>>, <<>>)>>
      [] shape = 2 -> <<Attribute(major, 0, <<Int2Entry(major, 5), CharEntry(major, 5)>>,
                                  <<Int2Entry(major, 9)>>),
                        Attribute(major, 1, <<>>, <<CharEntry(major, 9)>>)>>

\* a well-formed file of version v with the first magic word m1
Base(m1, v, encoding, shape) ==
    [m1 |-> m1, m2 |-> MagicUncompressed,
     cdr |-> [CdrParams EXCEPT !.hint = HintMajor(m1), !.version = v[1], !.release = v[2],
                               !.increment = v[3], !.encoding = encoding,
                               !.copyright_len = IF VersionLess(v, CdfVersionNew(2, 5, 0))
                                                 THEN CopyrightLenLegacy ELSE CopyrightLen],
     gap |-> <<>>,
     gdr |-> [GdrParams EXCEPT !.major = v[1], !.adr_head = Auto,
                               !.num_attributes = IF shape = 0 THEN 0 ELSE shape],
     adrs |-> Attributes(v[1], shape),
     extra |-> <<>>,
     trunc |-> -1]

MagicWords == {Magic3, Magic26, Magic2}
Versions == {CdfVersionNew(3, 9, 0), CdfVersionNew(2, 7, 2), CdfVersionNew(2, 4, 0)}
V3 == CdfVersionNew(3, 9, 0)
V2 == CdfVersionNew(2, 7, 2)

WellFormed ==
    {Base(m1, v, e, shape) : m1 \in MagicWords, v \in Versions, e \in {1, 6},
                             shape \in AdrShapes}

\* words that are no magic word: 0xdeadbeef, 0xcdf30001 with its bytes swapped,
\* 0xffff0000
NoMagic == {<<57005, 48879>>, <<256, 62413>>, <<65535, 0>>}

\* every pairing of first and second words, magic or not
MagicCases ==
    {[Base(m1, V3, 1, 0) EXCEPT !.m2 = m2] :
        m1 \in MagicWords \cup NoMagic \cup {MagicCompressed},
        m2 \in {MagicUncompressed, MagicCompressed} \cup NoMagic \cup {Magic3}}

\* files that end early
Truncated ==
    {[Base(m1, V3, 1, 1) EXCEPT !.trunc = n] :
        m1 \in {Magic3, <<57005, 48879>>}, n \in {0, 3, 4, 6, 8, 14, 40, 330, 700}}

\* every encoding tag of the table, and tags around it
EncodingProbe == (-1..23) \cup {256, 16777216}
EncodingCases ==
    {Base(Magic3, V3, e, 1) : e \in EncodingProbe}
    \cup {Base(Magic26, V2, e, 2) : e \in EncodingProbe}

\* reserved words and record types off their constants, record by record
Deviations(b) ==
    {[b EXCEPT !.cdr.rfu_a = 1], [b EXCEPT !.cdr.rfu_b = -1], [b EXCEPT !.cdr.rfu_e = 0],
     [b EXCEPT !.cdr.rfu_e = 7], [b EXCEPT !.cdr.type = 2],
     [b EXCEPT !.gdr.rfu_c = 1], [b EXCEPT !.gdr.rfu_e = 0], [b EXCEPT !.gdr.type = 1],
     [b EXCEPT !.adrs[1].adr.rfu_a = 1], [b EXCEPT !.adrs[1].adr.rfu_e = 0],
     [b EXCEPT !.adrs[2].adr.type = 5], [b EXCEPT !.adrs[2].adr.rfu_a = -1],
     [b EXCEPT !.adrs[1].gr[1].rfu_b = 1], [b EXCEPT !.adrs[1].gr[2].rfu_c = -1],
     [b EXCEPT !.adrs[1].gr[1].rfu_d = 0], [b EXCEPT !.adrs[1].gr[2].rfu_e = 0],
     [b EXCEPT !.adrs[1].gr[2].type = 9],
     [b EXCEPT !.adrs[1].z[1].rfu_b = -1], [b EXCEPT !.adrs[2].z[1].rfu_c = 1],
     [b EXCEPT !.adrs[1].z[1].rfu_d = 1], [b EXCEPT !.adrs[2].z[1].rfu_e = -2],
     [b EXCEPT !.adrs[2].z[1].type = 5]}

DeviationCases == Deviations(Base(Magic3, V3, 1, 2)) \cup Deviations(Base(Magic26, V2, 6, 2))

\* a GDR away from the end of the CDR: bytes in between, a second GDR in
\* between, and offsets that point elsewhere
OtherGdr(major) == Layout(<<GdrSec([GdrParams EXCEPT !.major = major, !.num_rvars = 7])>>, 1)
GdrPlaces(b) ==
    {[b EXCEPT !.gap = <<0, 0, 0, 0>>],
     [b EXCEPT !.gap = Zeros(64)],
     [b EXCEPT !.gap = OtherGdr(b.gdr.major)],
     [b EXCEPT !.cdr.gdr = Off(I64MinusOne)],
     [b EXCEPT !.cdr.gdr = Off(Small64(MagicLen))],
     [b EXCEPT !.cdr.gdr = Off(Small64(100000))],
     [b EXCEPT !.cdr.gdr = Off(<<1, 0>>)]}

GdrCases == GdrPlaces(Base(Magic3, V3, 1, 1)) \cup GdrPlaces(Base(Magic26, V2, 6, 1))

\* variables and unused records on the lists the GDR heads
Variable(major, tag) ==
    VdrSec([VdrParams EXCEPT !.major = major, !.type = tag,
                             !.dims = IF tag = 8 THEN <<1, 2, -1>> ELSE <<>>])
Unused(major) == UirSec([UirParams EXCEPT !.major = major])

ListCases ==
    UNION {{[b EXCEPT !.gdr.rvdr_head = Extra(1), !.gdr.num_rvars = 1,
                      !.extra = <<Variable(b.gdr.major, 3)>>],
            [b EXCEPT !.gdr.zvdr_head = Extra(1), !.gdr.num_zvars = 1,
                      !.extra = <<Variable(b.gdr.major, 8)>>],
            [b EXCEPT !.gdr.uir_head = Extra(1), !.extra = <<Unused(b.gdr.major)>>],
            [b EXCEPT !.gdr.rvdr_head = Extra(1), !.gdr.zvdr_head = Extra(2),
                      !.gdr.uir_head = Extra(3), !.gdr.num_rvars = 1, !.gdr.num_zvars = 1,
                      !.extra = <<Variable(b.gdr.major, 3), Variable(b.gdr.major, 8),
                                  Unused(b.gdr.major)>>]} :
           b \in {Base(Magic3, V3, 1, 1), Base(Magic26, V2, 6, 0)}}

\* attributes whose counts are not the lengths of their lists
CountCases ==
    UNION {{[b EXCEPT !.adrs[1].adr.num_gr_entries = 5],
            [b EXCEPT !.adrs[1].adr.num_gr_entries = 0],
            [b EXCEPT !.adrs[1].adr.num_z_entries = 0],
            [b EXCEPT !.adrs[2].adr.num_z_entries = 3],
            [b EXCEPT !.adrs[2].adr.num_gr_entries = -1]} :
           b \in {Base(Magic3, V3, 1, 2), Base(Magic2, V2, 6, 2)}}

\* offsets and sizes with their high bit set
SignCases ==
    UNION {{[b EXCEPT !.gdr.eof = I64MinusOne],
            [b EXCEPT !.gdr.uir_head = Off(I64MinusOne)],
            [b EXCEPT !.gdr.eof = <<-1, -2147483647>>],
            [b EXCEPT !.gdr.uir_head = Off(<<0, -1>>)],
            [b EXCEPT !.gdr.rvdr_head = Off(I64MinusOne)]} :
           b \in {Base(m1, v, 1, 0) : m1 \in MagicWords, v \in {V3, V2}}}

Scenarios ==
    WellFormed \cup MagicCases \cup Truncated \cup EncodingCases \cup DeviationCases
    \cup GdrCases \cup ListCases \cup CountCases \cup SignCases

\* Cdf::decode_be on a new decoder over the file of a scenario
WholeFile(sc) ==
    [pc |-> "magic", cls |-> "Cdf", file |-> FileOfScenario(sc), decoder |-> DecoderNew]

(* One record decoded on its own, by a caller that has set the context and  *)
(* has seeked to the record.                                                *)

Classes == {"CDR", "GDR", "RVDR", "ADR", "AGREDR", "VXR", "VVR", "ZVDR", "AZEDR",
            "CCR", "CPR", "CVVR", "UIR"}

Params(class) ==
    CASE class = "CDR" -> [CdrParams EXCEPT !.gdr = Ref(2)]
      [] class = "GDR" -> GdrParams
      [] class = "ADR" -> AdrParams
      [] class = "AGREDR" -> AedrParams
      [] class = "AZEDR" -> [AedrParams EXCEPT !.type = 9]
      [] class = "RVDR" -> [VdrParams EXCEPT !.type = 3, !.dims = <<-1>>]
      [] class = "ZVDR" -> VdrParams
      [] class = "VXR" -> [VxrParams EXCEPT !.offsets = <<Ref(2), Off(I64MinusOne)>>]
      [] class = "VVR" -> VvrParams
      [] class = "CVVR" -> CvvrParams
      [] class = "UIR" -> UirParams
      [] class = "CCR" -> CcrParams
      [] class = "CPR" -> CprParams

\* the parameters of a record of a file of the version v
OfVersion(class, p, v) ==
    IF class = "CDR"
    THEN [p EXCEPT !.hint = v[1], !.version = v[1], !.release = v[2], !.increment = v[3]]
    ELSE [p EXCEPT !.major = v[1]]

\* the record, followed by the records its decoder goes on to
Alone(class, p) ==
    CASE class = "CDR" -> <<CdrSec(p), GdrSec([GdrParams EXCEPT !.major = p.version])>>
      [] class = "GDR" -> <<GdrSec(p)>>
      [] class = "ADR" -> <<AdrSec(p)>>
      [] class \in {"AGREDR", "AZEDR"} -> <<AedrSec(p)>>
      [] class \in {"RVDR", "ZVDR"} -> <<VdrSec(p)>>
      [] class = "VXR" -> <<VxrSec(p), VvrSec([VvrParams EXCEPT !.major = p.major])>>
      [] class = "VVR" -> <<VvrSec(p)>>
      [] class = "CVVR" -> <<CvvrSec(p)>>
      [] class = "UIR" -> <<UirSec(p)>>
      [] class = "CCR" -> <<CcrSec(p)>>
      [] class = "CPR" -> <<CprSec(p)>>

\* the context a caller has after the CDR of a file of version v and encoding
\* e, with one rVariable dimension and a variable of num Int2 per record
ContextOf(v, e, data_type, num) ==
    [DecodeContextDefault EXCEPT
        !.version = Some(v), !.encoding = Some(e),
        !.endianness = IF e \in BigEndianEncodings THEN Some("Big")
                       ELSE IF e \in LittleEndianEncodings THEN Some("Little")
                       ELSE None,
        !.row_major = Some(TRUE), !.num_r_dims = Some(1),
        !.var_data_type = Some(data_type), !.var_data_len = Some(num),
        !.num_records = Some(2)]

\* T::decode_be on the record that starts the sections secs
Lone(class, context, secs) ==
    [pc |-> "record", cls |-> class, file |-> FileOf(Magic3, MagicUncompressed, secs),
     decoder |-> [pos |-> MagicLen, context |-> context, log |-> <<>>]]

\* the context the magic words leave, for the CDR, and the one the CDR leaves
CallerContext(class, v, e) ==
    IF class = "CDR" THEN [DecodeContextDefault EXCEPT !.version = Some(v)]
    ELSE ContextOf(v, e, 2, 2)

\* every record class with every record type
TagProbe == (-1..13) \cup {99, 256}
TagCases ==
    {Lone(class, CallerContext(class, v, 1),
          Alone(class, [OfVersion(class, Params(class), v) EXCEPT !.type = t])) :
        class \in Classes, v \in {V3, V2}, t \in TagProbe}

\* every reserved word, with its constant
Reserved ==
    {<<"CDR", "rfu_a", 0>>, <<"CDR", "rfu_b", 0>>, <<"CDR", "rfu_e", -1>>,
     <<"GDR", "rfu_c", 0>>, <<"GDR", "rfu_e", -1>>,
     <<"ADR", "rfu_a", 0>>, <<"ADR", "rfu_e", -1>>,
     <<"AGREDR", "rfu_b", 0>>, <<"AGREDR", "rfu_c", 0>>, <<"AGREDR", "rfu_d", -1>>,
     <<"AGREDR", "rfu_e", -1>>,
     <<"AZEDR", "rfu_b", 0>>, <<"AZEDR", "rfu_c", 0>>, <<"AZEDR", "rfu_d", -1>>,
     <<"AZEDR", "rfu_e", -1>>,
     <<"RVDR", "rfu_b", 0>>, <<"RVDR", "rfu_c", -1>>, <<"RVDR", "rfu_f", -1>>,
     <<"ZVDR", "rfu_b", 0>>, <<"ZVDR", "rfu_c", -1>>, <<"ZVDR", "rfu_f", -1>>,
     <<"CCR", "rfu_a", 0>>, <<"CPR", "rfu_a", 0>>, <<"CVVR", "rfu_a", 0>>}

ReservedCases ==
    {Lone(r[1], CallerContext(r[1], v, 1),
          Alone(r[1], [OfVersion(r[1], Params(r[1]), v) EXCEPT ![r[2]] = x])) :
        r \in Reserved, v \in {V3, V2}, x \in {-1, 0, 1, 256}}

\* values as <<data type, number of elements, bytes>>
ValueProbe ==
    {<<2, 2, <<1, 2, 3, 4>>>>, <<4, 1, <<1, 2, 3, 4>>>>, <<1, 2, <<255, 1>>>>,
     <<12, 1, <<255, 254>>>>, <<22, 1, <<1, 2, 3, 4, 5, 6, 7, 8>>>>,
     <<32, 1, <<1, 2, 3, 4, 5, 6, 7, 8, 9, 10, 11, 12, 13, 14, 15, 16>>>>,
     <<51, 3, <<97, 98, 99>>>>}

PayloadEncodings == {1, 2, 4, 6, 0, 3}

\* attribute entries, pad values and variable records of every probe value
PayloadCases ==
    {Lone(class, ContextOf(v, e, 2, 2),
          Alone(class, [OfVersion(class, Params(class), v) EXCEPT
                         !.data_type = x[1], !.num_elements = x[2], !.value = x[3]])) :
        class \in {"AGREDR", "AZEDR"}, v \in {V3, V2}, e \in PayloadEncodings,
        x \in ValueProbe}
    \cup
    {Lone(class, ContextOf(v, e, 2, 2),
          Alone(class, [OfVersion(class, Params(class), v) EXCEPT
                         !.data_type = x[1], !.num_elements = x[2], !.pad_value = x[3]])) :
        class \in {"RVDR", "ZVDR"}, v \in {V3, V2}, e \in PayloadEncodings, x \in ValueProbe}
    \cup
    {Lone("VVR", ContextOf(v, e, x[1], x[2]),
          Alone("VVR", [OfVersion("VVR", VvrParams, v) EXCEPT !.data = x[3] \o x[3]])) :
        v \in {V3, V2}, e \in PayloadEncodings, x \in ValueProbe}

\* a variable with its index record and the record the index points to
Tree(class, v, child) ==
    <<VdrSec([OfVersion(class, Params(class), v) EXCEPT !.vxr_head = Ref(2), !.vxr_tail = Ref(2)]),
      VxrSec([OfVersion("VXR", VxrParams, v) EXCEPT !.offsets = <<Ref(3), Off(I64MinusOne)>>]),
      child>>

Children(v) ==
    {VvrSec(OfVersion("VVR", VvrParams, v)),
     VvrSec([OfVersion("VVR", VvrParams, v) EXCEPT !.type = 99]),
     VvrSec([OfVersion("VVR", VvrParams, v) EXCEPT !.type = 13]),
     CvvrSec(OfVersion("CVVR", CvvrParams, v)),
     CvvrSec([OfVersion("CVVR", CvvrParams, v) EXCEPT !.type = 7]),
     VxrSec([OfVersion("VXR", VxrParams, v) EXCEPT
                !.num_entries = 0, !.num_used_entries = 0, !.first = <<>>, !.last = <<>>,
                !.offsets = <<>>])}

TreeCases ==
    UNION {{Lone(class, ContextOf(v, e, 2, 2), Tree(class, v, child)) :
               class \in {"RVDR", "ZVDR"}, e \in {1, 6}, child \in Children(v)} :
           v \in {V3, V2}}

\* variables of two Int1 per value whose caller's context still holds the
\* type and the length of another variable, two Int2 per record
TreeOf(p, v, child) ==
    <<VdrSec([p EXCEPT !.vxr_head = Ref(2), !.vxr_tail = Ref(2)]),
      VxrSec([OfVersion("VXR", VxrParams, v) EXCEPT !.offsets = <<Ref(3), Off(I64MinusOne)>>]),
      child>>

LeftoverCases ==
    {Lone(class, ContextOf(v, 1, 2, 2),
          TreeOf([OfVersion(class, Params(class), v) EXCEPT
                     !.data_type = 1, !.num_elements = x[1],
                     !.pad_value = [i \in 1..x[1] |-> i],
                     !.dims = IF class = "ZVDR" THEN x[2] ELSE <<-1>>],
                 v, VvrSec(OfVersion("VVR", VvrParams, v)))) :
        class \in {"RVDR", "ZVDR"}, v \in {V3, V2},
        x \in {<<2, <<2, 2, 5, -1, 0>>>>, <<2, <<2, 5, 2, 0, -1>>>>, <<2, <<1, 4, -1>>>>,
               <<2, <<2, 4, 3, 0, 0>>>>, <<1, <<2, 2, 2, -1, 0>>>>, <<1, <<0>>>>}}

\* variables with every setting of the flags, with and without the bytes of
\* a pad value, and with every kind of dimension variance
FlagCases ==
    {Lone(class, ContextOf(v, e, 2, 2),
          Alone(class, [OfVersion(class, Params(class), v) EXCEPT
                           !.flags = f, !.pad_value = pad])) :
        class \in {"RVDR", "ZVDR"}, v \in {V3, V2}, e \in {1, 6},
        f \in {0, 1, 2, 3, 5, 7}, pad \in {<<>>, <<1, 2>>}}

VarianceCases ==
    {Lone(class, ContextOf(v, 1, 2, 2),
          Alone(class, [OfVersion(class, Params(class), v) EXCEPT
                           !.dims = IF class = "ZVDR" THEN <<1, 2, x>> ELSE <<x>>])) :
        class \in {"RVDR", "ZVDR"}, v \in {V3, V2}, x \in {-2, -1, 0, 1, 256}}

\* every optional offset that a decoder does not follow, with 0, -1 and other
\* values, in files from before and after zVariables and eof were defined
OptionalProbe ==
    {<<"ADR", "adr_next">>, <<"AGREDR", "next">>, <<"AZEDR", "next">>, <<"RVDR", "next">>,
     <<"ZVDR", "next">>, <<"VXR", "next">>, <<"UIR", "next">>, <<"UIR", "prev">>,
     <<"GDR", "rvdr_head">>, <<"GDR", "zvdr_head">>, <<"GDR", "adr_head">>,
     <<"RVDR", "vxr_tail">>, <<"ZVDR", "vxr_tail">>}

ProbeVersions == {V3, V2, CdfVersionNew(2, 2, 0), CdfVersionNew(2, 1, 5), CdfVersionNew(2, 0, 9)}

SentinelCases ==
    {Lone(f[1], ContextOf(v, 1, 2, 2),
          Alone(f[1], [OfVersion(f[1], Params(f[1]), v) EXCEPT ![f[2]] = Off(x)])) :
        f \in OptionalProbe, v \in ProbeVersions,
        x \in {I64Zero, I64MinusOne, <<0, 4096>>, <<0, 1>>}}
    \cup
    {Lone(class, ContextOf(v, 1, 2, 2),
          Alone(class, [OfVersion(class, Params(class), v) EXCEPT !.cpr_spr_offset = x])) :
        class \in {"RVDR", "ZVDR"}, v \in {V3, V2},
        x \in {I64Zero, I64MinusOne, <<0, 4096>>}}

\* pad values of every data type of the table and of tags outside it, with
\* counts from -1 on, over bytes that hold a NUL and bytes above 127
TypeProbe == {-1, 0, 1, 2, 3, 4, 5, 8, 11, 12, 14, 21, 22, 31, 32, 33, 41, 44, 45, 51, 52, 53}
TypeBytes == <<97, 0, 200, 66, 255, 128, 1, 2>> \o [i \in 1..24 |-> i + 8]
TypeCases ==
    {Lone("ZVDR", ContextOf(V3, e, 2, 2),
          Alone("ZVDR", [OfVersion("ZVDR", Params("ZVDR"), V3) EXCEPT
                            !.data_type = t, !.num_elements = n, !.pad_value = TypeBytes])) :
        e \in {1, 6}, t \in TypeProbe, n \in {-1, 0, 1, 2, 3}}

\* an attribute whose file ends before or inside its name
ShortNameCases ==
    {[Lone("ADR", ContextOf(v, 1, 2, 2), Alone("ADR", OfVersion("ADR", Params("ADR"), v)))
         EXCEPT !.file = Prefix(@, Len(@) - cut)] :
        v \in {V3, V2}, cut \in {0, 1, 10, 63, 64, 65}}

\* records whose own size is below, at and above the size of their header,
\* and attribute entries with no element or a negative number of elements
SizeProbe == {-1, 0, 12, 15, 16, 19, 20, 27, 28, 31, 32, 36}
SizeCases ==
    {Lone(class, ContextOf(v, 1, 2, 2),
          <<[Alone(class, OfVersion(class, Params(class), v))[1] EXCEPT
                !.items[1] = Off(IF n < 0 THEN I64MinusOne ELSE Small64(n))]>>) :
        class \in {"UIR", "CCR"}, v \in {V3, V2}, n \in SizeProbe}
    \cup
    {Lone(class, ContextOf(v, e, 2, 2),
          Alone(class, [OfVersion(class, Params(class), v) EXCEPT
                         !.data_type = t, !.num_elements = n, !.value = <<97, 0, 98, 99>>])) :
        class \in {"AGREDR", "AZEDR"}, v \in {V3, V2}, e \in {1, 6}, t \in {2, 51, 52},
        n \in {-1, 0, 1, 2}}

\* an attribute whose list of entries leads back into itself: the entry
\* points to itself, or the second entry points to the first
CycleCases ==
    {Lone("ADR", ContextOf(v, 1, 2, 2),
          <<AdrSec([OfVersion("ADR", Params("ADR"), v) EXCEPT !.agredr_head = Ref(2)]),
            AedrSec([OfVersion("AGREDR", Params("AGREDR"), v) EXCEPT !.next = Ref(k)]),
            AedrSec([OfVersion("AGREDR", Params("AGREDR"), v) EXCEPT !.next = Ref(back)])>>) :
        v \in {V3, V2}, k \in {2, 3}, back \in {0, 2, 3}}

\* an attribute followed by two gr-entries and a z-entry, its lists running
\* forward or backward through the file, ending at once, or at an offset below 0
ChainCases ==
    {Lone("ADR", ContextOf(v, 1, 2, 2),
          <<AdrSec([OfVersion("ADR", Params("ADR"), v) EXCEPT
                       !.agredr_head = head, !.azedr_head = z]),
            AedrSec([OfVersion("AGREDR", Params("AGREDR"), v) EXCEPT !.next = n2, !.num = 2]),
            AedrSec([OfVersion("AGREDR", Params("AGREDR"), v) EXCEPT !.next = n3, !.num = 3]),
            AedrSec([OfVersion("AZEDR", Params("AZEDR"), v) EXCEPT !.num = 4])>>) :
        v \in {V3, V2}, head \in {Ref(2), Ref(3), Off(I64MinusOne)},
        n2 \in {Ref(0), Ref(3), Off(I64MinusOne)}, n3 \in {Ref(0), Ref(2)},
        z \in {Ref(0), Ref(4)}}

\* index records of two slots as <<num_used_entries, first, last, offsets>>:
\* counts that are not the number of offsets, a used slot after an unused
\* one, and slots of which only some of first, last and offset are there
SlotProbe ==
    {<<u, <<0, -1>>, <<2, -1>>, <<Ref(2), Off(I64MinusOne)>>>> : u \in {-1, 0, 1, 2, 5}}
    \cup {<<1, <<0, 5>>, <<2, 7>>, <<Ref(2), Off(I64MinusOne)>>>>,
          <<1, <<0, 5>>, <<2, -1>>, <<Ref(2), Off(I64MinusOne)>>>>,
          <<1, <<-1, -1>>, <<2, -1>>, <<Ref(2), Off(I64MinusOne)>>>>,
          <<1, <<0, -1>>, <<-1, -1>>, <<Ref(2), Off(I64MinusOne)>>>>,
          <<1, <<-1, -1>>, <<-1, -1>>, <<Ref(2), Off(I64MinusOne)>>>>,
          <<1, <<-1, 0>>, <<-1, 2>>, <<Off(I64MinusOne), Ref(2)>>>>,
          <<2, <<0, 0>>, <<2, 2>>, <<Ref(2), Ref(2)>>>>,
          <<0, <<-1, -1>>, <<-1, -1>>, <<Off(I64MinusOne), Off(I64MinusOne)>>>>}
SlotCases ==
    {Lone("VXR", ContextOf(v, 1, 2, 2),
          Alone("VXR", [OfVersion("VXR", Params("VXR"), v) EXCEPT
                           !.num_used_entries = x[1], !.first = x[2], !.last = x[3],
                           !.offsets = x[4]])) :
        v \in {V3, V2}, x \in SlotProbe}

\* compression parameters of every kind, and of numbers that name no kind,
\* with levels in and around 1..9
CprCases ==
    {Lone("CPR", ContextOf(v, 1, 2, 2),
          Alone("CPR", [OfVersion("CPR", Params("CPR"), v) EXCEPT
                           !.compression_type = k, !.compression_level = level])) :
        v \in {V3, V2}, k \in -1..6, level \in {-1, 0, 1, 9, 10, 256}}

\* an index record of two slots, one leading to a VVR and one to a second
\* index record with a VVR of its own; the slots hold a, b and c records
NestCases ==
    {Lone("VXR", ContextOf(v, 1, 2, 2),
          <<VxrSec([OfVersion("VXR", VxrParams, v) EXCEPT
                       !.num_used_entries = 2,
                       !.first = IF nested_first THEN <<0, 10>> ELSE <<10, 0>>,
                       !.last = IF nested_first THEN <<a, 10 + b>> ELSE <<10 + b, a>>,
                       !.offsets = IF nested_first THEN <<Ref(2), Ref(4)>>
                                   ELSE <<Ref(4), Ref(2)>>]),
            VxrSec([OfVersion("VXR", VxrParams, v) EXCEPT
                       !.first = <<20, -1>>, !.last = <<20 + c, -1>>,
                       !.offsets = <<Ref(3), Off(I64MinusOne)>>]),
            VvrSec([OfVersion("VVR", VvrParams, v) EXCEPT !.data = [i \in 1..12 |-> i]]),
            VvrSec([OfVersion("VVR", VvrParams, v) EXCEPT !.data = [i \in 1..12 |-> 100 + i]])>>) :
        v \in {V3, V2}, nested_first \in BOOLEAN, a \in {0, 3, 5}, b \in {1, 3}, c \in {1, 2, 3}}

Cases ==
    {WholeFile(sc) : sc \in Scenarios}
    \cup TagCases \cup ReservedCases \cup PayloadCases \cup TreeCases \cup LeftoverCases
    \cup FlagCases \cup VarianceCases \cup SentinelCases \cup TypeCases
    \cup ShortNameCases \cup SizeCases \cup CycleCases \cup ChainCases \cup SlotCases
    \cup CprCases \cup NestCases

Init ==
    /\ \E c \in Cases :
          /\ file = c.file
          /\ pc = c.pc
          /\ cls = c.cls
          /\ decoder = c.decoder
    /\ fill \in {"partial", "zeroed"}
    /\ is_compressed = None
    /\ cdr = None
    /\ gdr = None
    /\ adr_vec = <<>>
    /\ agredr_vec = <<>>
    /\ azedr_vec = <<>>
    /\ chain_next = None
    /\ adr_idx = 1
    /\ result = None
    /\ record = None

Next ==
    \/ ReadMagic
    \/ DecodeCdr
    \/ DecodeGdr
    \/ AdrStep
    \/ AdrDone
    \/ AgredrStep
    \/ AgredrDone
    \/ AzedrStep
    \/ Finished
    \/ DecodeOne

Spec == Init /\ [][Next]_vars

-----------------------------------------------------------------------------
(* Properties.  They are stated over the bytes of `file`, the I/O trace     *)
(* decoder.log and the values the decode left, with the constants of the    *)
(* format written out.                                                      *)

Log == decoder.log
WholeDecode == cls = "Cdf"
Succeeded == pc = "done" /\ result = Some(NoErr)
Failed == pc = "done" /\ IsSome(result) /\ result # Some(NoErr)
ErrKind == IF IsSome(result) THEN Unwrap(result).kind ELSE "none"
\* the 32-bit word at the bytes i .. i+3 of the file, as <<high 16, low 16>>
WordAt(i) == <<file[i] * 256 + file[i + 1], file[i + 2] * 256 + file[i + 3]>>
\* the big-endian i32 at the bytes i .. i+3 of the file
Int4At(i) ==
    (IF file[i] >= 128 THEN file[i] - 256 ELSE file[i]) * 16777216
    + file[i + 1] * 65536 + file[i + 2] * 256 + file[i + 3]

FirstWordHint ==
    CASE SubSeq(file, 1, 4) = <<205, 243, 0, 1>> -> <<<<3, 0, 0>>>>
      [] SubSeq(file, 1, 4) = <<205, 242, 96, 2>> -> <<<<2, 6, 0>>>>
      [] SubSeq(file, 1, 4) = <<0, 0, 255, 255>> -> <<<<2, 0, 0>>>>
      [] OTHER -> <<>>
SecondWordFlag ==
    CASE SubSeq(file, 5, 8) = <<0, 0, 255, 255>> -> <<FALSE>>
      [] SubSeq(file, 5, 8) = <<204, 204, 0, 1>> -> <<TRUE>>
      [] OTHER -> <<>>
InvalidMagicOf(w) ==
    /\ pc = "done" /\ IsSome(result)
    /\ Unwrap(result).kind = "InvalidMagicNumber"
    /\ Unwrap(result).word = w
    /\ cdr = None /\ gdr = None

\* C1: the decode reads two big-endian 4-byte words at offsets 0 and 4; the
\* first words cdf30001, cdf26002, 0000ffff set the version hint (3,0,0),
\* (2,6,0), (2,0,0), the second words 0000ffff and cccc0001 set is_compressed
\* to false and true; any other word ends the decode with InvalidMagicNumber
\* of that word and no CDF.
C1_MagicWords ==
    (WholeDecode /\ pc # "magic" /\ Len(file) >= 8) =>
        /\ Len(Log) >= 2
        /\ Log[1].op = "read" /\ Log[1].at = 0 /\ Log[1].n = 4
        /\ Log[2].op = "read" /\ Log[2].at = 4 /\ Log[2].n = 4
        /\ IF FirstWordHint = <<>> THEN InvalidMagicOf(WordAt(1))
           ELSE IF SecondWordFlag = <<>> THEN InvalidMagicOf(WordAt(5))
           ELSE /\ is_compressed = SecondWordFlag
                /\ pc = "cdr" => decoder.context.version = FirstWordHint
                /\ Len(Log) >= 3 => Log[3].ver = FirstWordHint

C1_Witness ==
    /\ WholeDecode /\ pc = "cdr"
    /\ SubSeq(file, 1, 8) = <<205, 242, 96, 2, 204, 204, 0, 1>>
    /\ is_compressed = <<TRUE>>
    /\ decoder.context.version = <<<<2, 6, 0>>>>

\* C2: when the first magic word is none of the three, the decode fails with
\* InvalidMagicNumber of that word after one read of 4 bytes: no second read
\* and no seek.
C2_NoIoAfterBadFirstWord ==
    (WholeDecode /\ pc # "magic" /\ Len(file) >= 4 /\ FirstWordHint = <<>>) =>
        /\ Len(Log) = 1
        /\ InvalidMagicOf(WordAt(1))


-----------------------------------------------------------------------------
(* Record sizes and file offsets. *)

\* the fields that hold a record size, a byte count or a file offset
OffsetFieldNames ==
    {"record_size", "gdr_offset", "rvdr_head", "zvdr_head", "adr_head", "eof",
     "uir_head", "adr_next", "agredr_head", "azedr_head", "agredr_next",
     "azedr_next", "rvdr_next", "zvdr_next", "vxr_head", "vxr_tail",
     "cpr_spr_offset", "vxr_next", "offset_vec", "uir_next", "uir_prev",
     "cpr_offset", "uncompressed_size", "compressed_size"}

\* the 64-bit value the n bytes after position p stand for, the 4-byte form
\* widened by sign extension
OffsetAt(p, n) ==
    IF n = 8 THEN <<Int4At(p + 1), Int4At(p + 5)>>
    ELSE <<IF Int4At(p + 1) < 0 THEN -1 ELSE 0, Int4At(p + 1)>>

\* (version, release, increment) as the bytes of the CDR give them
CdrVersionInFile ==
    IF FirstWordHint[1][1] >= 3
    THEN <<<<Int4At(29), Int4At(33), Int4At(53)>>>>
    ELSE <<<<Int4At(21), Int4At(25), Int4At(45)>>>>

\* the last read made for a field of a record class
LastReadOf(what) ==
    CHOOSE i \in 1..Len(Log) :
        Log[i].what = what /\ \A j \in (i + 1)..Len(Log) : Log[j].what # what

\* C3: every read of a record size or file offset takes 8 bytes when the
\* context's version has major >= 3 and 4 bytes otherwise; in a decode of a
\* whole file that version is the hint of the first magic word for the CDR's
\* record_size and gdr_offset and the CDR's own (version, release, increment)
\* for every later record; the 4-byte form is widened by sign extension.
C3_OffsetWidths ==
    /\ \A i \in 1..Len(Log) :
           (Log[i].op = "read" /\ Log[i].what[2] \in OffsetFieldNames) =>
               /\ Log[i].ver # <<>>
               /\ Log[i].n = IF Log[i].ver[1][1] >= 3 THEN 8 ELSE 4
               /\ WholeDecode =>
                      Log[i].ver = IF Log[i].what \in {<<"CDR", "record_size">>,
                                                       <<"CDR", "gdr_offset">>}
                                   THEN FirstWordHint
                                   ELSE CdrVersionInFile
    /\ (WholeDecode /\ gdr # <<>>) =>
           /\ gdr[1].uir_head = OffsetAt(Log[LastReadOf(<<"GDR", "uir_head">>)].at,
                                         Log[LastReadOf(<<"GDR", "uir_head">>)].n)
           /\ cdr[1].gdr_offset = OffsetAt(Log[LastReadOf(<<"CDR", "gdr_offset">>)].at,
                                           Log[LastReadOf(<<"CDR", "gdr_offset">>)].n)

\* a 2.x file whose GDR holds 0xFFFFFFFF as uir_head, decoded to -1, behind a
\* CDR that was read with 8-byte offsets
C3_Witness ==
    /\ WholeDecode /\ gdr # <<>>
    /\ FirstWordHint = <<<<3, 0, 0>>>>
    /\ CdrVersionInFile[1][1] = 2
    /\ Log[LastReadOf(<<"GDR", "uir_head">>)].n = 4
    /\ gdr[1].uir_head = <<-1, -1>>
    /\ Log[LastReadOf(<<"CDR", "gdr_offset">>)].n = 8


-----------------------------------------------------------------------------
(* Record types. *)

\* the internal record type of each record class
RecordTypeOf(class) ==
    CASE class = "CDR" -> 1 [] class = "GDR" -> 2 [] class = "RVDR" -> 3
      [] class = "ADR" -> 4 [] class = "AGREDR" -> 5 [] class = "VXR" -> 6
      [] class = "VVR" -> 7 [] class = "ZVDR" -> 8 [] class = "AZEDR" -> 9
      [] class = "CCR" -> 10 [] class = "CPR" -> 11 [] class = "CVVR" -> 13
      [] class = "UIR" -> -1

RecordClasses ==
    {"CDR", "GDR", "RVDR", "ADR", "AGREDR", "VXR", "VVR", "ZVDR", "AZEDR", "CCR",
     "CPR", "CVVR", "UIR"}

\* C4: in every record class record_type is read right after record_size and
\* compared with the type of the class before anything else is read; a
\* different value ends the decode with a decode error that names the class,
\* "record_type", the expected and the received type, and no record of a
\* result holds a type other than that of its class.
C4_RecordTypeChecked ==
    /\ \A i \in 1..Len(Log) :
           (Log[i].op = "read" /\ Log[i].ok /\ Log[i].what[2] = "record_type"
            /\ Log[i].what[1] \in RecordClasses) =>
               /\ i > 1
               /\ Log[i - 1].what = <<Log[i].what[1], "record_size">>
               /\ Log[i - 1].at + Log[i - 1].n = Log[i].at
               /\ Int4At(Log[i].at + 1) # RecordTypeOf(Log[i].what[1]) =>
                      /\ i = Len(Log)
                      /\ pc = "done"
                      /\ result = <<[kind |-> "Decode", class |-> Log[i].what[1],
                                     field |-> "record_type",
                                     expected |-> RecordTypeOf(Log[i].what[1]),
                                     received |-> Int4At(Log[i].at + 1),
                                     word |-> <<0, 0>>]>>
    /\ cdr # <<>> => cdr[1].record_type = 1 /\ cdr[1].gdr.record_type = 2
    /\ gdr # <<>> => gdr[1].record_type = 2
    /\ \A k \in 1..Len(adr_vec) : adr_vec[k].record_type = 4
    /\ \A k \in 1..Len(agredr_vec) : agredr_vec[k].record_type = 5
    /\ \A k \in 1..Len(azedr_vec) : azedr_vec[k].record_type = 9
    /\ record # <<>> => record[1].record_type = RecordTypeOf(cls)

\* a VVR whose record_type holds 13, the type of a CVVR
C4_Witness ==
    /\ cls = "VVR" /\ pc = "done"
    /\ Len(Log) = 2
    /\ Log[2].what = <<"VVR", "record_type">>
    /\ Int4At(Log[2].at + 1) = 13
    /\ result = <<[kind |-> "Decode", class |-> "VVR", field |-> "record_type",
                   expected |-> 7, received |-> 13, word |-> <<0, 0>>]>>


-----------------------------------------------------------------------------
(* Reserved words. *)

\* C5: every reserved word of a decoded record holds its constant; stated
\* here for the CDR, whose words rfu_a and rfu_b are 0 and whose word rfu_e,
\* the one after identifier, is -1 in every CDR a decode has kept.
C5_CdrReservedWords ==
    /\ cdr # <<>> =>
           cdr[1].rfu_a = 0 /\ cdr[1].rfu_b = 0 /\ cdr[1].rfu_e = -1
    /\ (cls = "CDR" /\ record # <<>>) =>
           record[1].rfu_a = 0 /\ record[1].rfu_b = 0 /\ record[1].rfu_e = -1


-----------------------------------------------------------------------------
(* Encodings. *)

\* the reads that take values in the file's encoding
PayloadReads ==
    {<<"AGREDR", "value">>, <<"AZEDR", "value">>, <<"RVDR", "pad_value">>,
     <<"ZVDR", "pad_value">>, <<"VVR", "data">>}

\* C6: the encoding tag of a CDR gives big-endian for 1, 2, 5, 7, 9, 12, 18 and
\* little-endian for 4, 6, 13, 16, 17, 19; every other tag ends the decode
\* with a decode error and leaves no endianness in the context, and no value
\* is read while the context holds an encoding outside the two lists.
C6_EncodingTable ==
    /\ \A i \in 1..Len(Log) :
           (cls \in {"Cdf", "CDR"} /\ Log[i].ok /\ Log[i].what = <<"CDR", "encoding">>) =>
               CASE Int4At(Log[i].at + 1) \in {1, 2, 5, 7, 9, 12, 18} ->
                      /\ decoder.context.endianness = <<"Big">>
                      /\ decoder.context.encoding = <<Int4At(Log[i].at + 1)>>
                 [] Int4At(Log[i].at + 1) \in {4, 6, 13, 16, 17, 19} ->
                      /\ decoder.context.endianness = <<"Little">>
                      /\ decoder.context.encoding = <<Int4At(Log[i].at + 1)>>
                 [] OTHER ->
                      /\ i = Len(Log)
                      /\ pc = "done"
                      /\ result # <<>> /\ result[1].kind = "Decode"
                      /\ decoder.context.endianness = <<>>
    /\ \A i \in 1..Len(Log) :
           Log[i].what \in PayloadReads =>
               /\ decoder.context.encoding # <<>>
               /\ decoder.context.encoding[1] \in {1, 2, 5, 7, 9, 12, 18, 4, 6, 13, 16, 17, 19}

\* a file of encoding 13 whose attribute entries were read little-endian
C6_Witness ==
    /\ WholeDecode /\ Succeeded
    /\ decoder.context.encoding = <<13>>
    /\ decoder.context.endianness = <<"Little">>
    /\ \E i \in 1..Len(Log) : Log[i].what = <<"AGREDR", "value">>

\* a file of encoding 3 that was refused at the tag
EncodingRefused ==
    /\ WholeDecode /\ Failed
    /\ Log[Len(Log)].what = <<"CDR", "encoding">>
    /\ Int4At(Log[Len(Log)].at + 1) = 3


-----------------------------------------------------------------------------
(* Byte order. *)

\* the first read made for a field of a record class
FirstReadOf(what) ==
    CHOOSE i \in 1..Len(Log) :
        Log[i].what = what /\ \A j \in 1..(i - 1) : Log[j].what # what

WasRead(what) == \E i \in 1..Len(Log) : Log[i].what = what /\ Log[i].ok

\* Int4 fields of record headers that a decoder keeps as it read them
HeaderInt4Fields ==
    {"record_type", "scope", "num", "num_gr_entries", "max_gr_entry", "num_z_entries",
     "max_z_entry", "attr_num", "data_type", "num_elements", "num_strings",
     "num_rvars", "num_attributes", "max_rvar", "dim_rvar", "num_zvars",
     "max_record", "sparse_records", "blocking_factor", "num_entries",
     "num_used_entries", "identifier", "rfu_a", "rfu_b", "rfu_c", "rfu_d", "rfu_e",
     "rfu_f"}

\* the 16-bit value of the two bytes after position p in a byte order
Int2At(p, little, signed) ==
    LET hi == IF little THEN file[p + 2] ELSE file[p + 1]
        lo == IF little THEN file[p + 1] ELSE file[p + 2]
    IN  (IF signed /\ hi >= 128 THEN hi - 256 ELSE hi) * 256 + lo

ContextIsLittle ==
    decoder.context.encoding # <<>>
    /\ decoder.context.encoding[1] \in {4, 6, 13, 16, 17, 19}

\* C7: the Int4 fields of a record header hold the big-endian value of their
\* four bytes whatever the encoding, while the 16-bit values of attribute
\* entries, pad values and variable records are little-endian exactly when
\* the encoding is one of the little-endian ones and big-endian otherwise.
C7_ByteOrder ==
    /\ record # <<>> =>
           \A f \in HeaderInt4Fields \cap DOMAIN record[1] :
               WasRead(<<cls, f>>) =>
                   record[1][f] = Int4At(Log[FirstReadOf(<<cls, f>>)].at + 1)
    /\ \A k \in 1..Len(adr_vec) :
           k = 1 => /\ adr_vec[k].num = Int4At(Log[FirstReadOf(<<"ADR", "num">>)].at + 1)
                    /\ adr_vec[k].scope = Int4At(Log[FirstReadOf(<<"ADR", "scope">>)].at + 1)
    /\ gdr # <<>> =>
           gdr[1].num_rvars = Int4At(Log[LastReadOf(<<"GDR", "num_rvars">>)].at + 1)
    /\ (record # <<>> /\ cls \in {"AGREDR", "AZEDR"} /\ record[1].data_type \in {2, 12}
        /\ record[1].num_elements > 0) =>
           /\ Len(record[1].value) = record[1].num_elements
           /\ record[1].value[1].v =
                  Int2At(Log[FirstReadOf(<<cls, "value">>)].at, ContextIsLittle,
                         record[1].data_type = 2)
    /\ (record # <<>> /\ cls \in {"RVDR", "ZVDR"} /\ record[1].data_type \in {2, 12}
        /\ record[1].num_elements > 0) =>
           record[1].pad_value[1].v =
               Int2At(Log[FirstReadOf(<<cls, "pad_value">>)].at, ContextIsLittle,
                      record[1].data_type = 2)
    /\ (record # <<>> /\ cls = "VVR" /\ Len(record[1].records) > 0
        /\ record[1].records[1].data_type \in {2, 12}
        /\ Len(record[1].records[1].data) > 0) =>
           record[1].records[1].data[1].v =
               Int2At(Log[FirstReadOf(<<"VVR", "data">>)].at, ContextIsLittle,
                      record[1].records[1].data_type = 2)

\* a VVR of Int2 values 01 02 read as 513 under the encoding 6, behind a
\* header whose record_type was read as 7
C7_Witness ==
    /\ cls = "VVR" /\ record # <<>>
    /\ decoder.context.encoding = <<6>>
    /\ record[1].record_type = 7
    /\ record[1].records[1].data_type = 2
    /\ SubSeq(file, Log[FirstReadOf(<<"VVR", "data">>)].at + 1,
              Log[FirstReadOf(<<"VVR", "data">>)].at + 2) = <<1, 2>>
    /\ record[1].records[1].data[1].v = 513


-----------------------------------------------------------------------------
(* The place of the GDR. *)

\* C8: whenever the record_size of a GDR is read, the cursor stands at the
\* file position the CDR's gdr_offset names.
C8_GdrReadAtOffset ==
    \A i \in 1..Len(Log) :
        (Log[i].what = <<"GDR", "record_size">> /\ WasRead(<<"CDR", "gdr_offset">>)) =>
            <<0, Log[i].at>> = OffsetAt(Log[FirstReadOf(<<"CDR", "gdr_offset">>)].at,
                                        Log[FirstReadOf(<<"CDR", "gdr_offset">>)].n)


-----------------------------------------------------------------------------
(* The lists of a file. *)

\* C9: a decode that succeeds on a file whose GDR heads a list of rVariables,
\* of zVariables or of unused records has decoded the records of that list.
C9_VariableListsWalked ==
    (WholeDecode /\ Succeeded) =>
        /\ gdr[1].rvdr_head # <<>> => \E i \in 1..Len(Log) : Log[i].what[1] = "RVDR"
        /\ gdr[1].zvdr_head # <<>> => \E i \in 1..Len(Log) : Log[i].what[1] = "ZVDR"
        /\ gdr[1].uir_head # <<0, 0>> => \E i \in 1..Len(Log) : Log[i].what[1] = "UIR"

\* C10: in a decode that has succeeded, the counts an ADR declares are the
\* lengths of the lists that were decoded from its heads.
C10_EntryCounts ==
    (WholeDecode /\ Succeeded) =>
        \A k \in 1..Len(adr_vec) :
            /\ adr_vec[k].num_gr_entries = Len(adr_vec[k].agredr_vec)
            /\ adr_vec[k].num_z_entries = Len(adr_vec[k].azedr_vec)


-----------------------------------------------------------------------------
(* Index records and the variable records they point to. *)

\* C11: a VVR that a VXR slot points to holds last - first + 1 variable
\* records, first and last being the slot's bounds.
C11_RecordsPerSlot ==
    (cls = "VXR" /\ record # <<>>) =>
        \A i \in 1..Len(record[1].children) :
            (record[1].children[i] # <<>>
             /\ "records" \in DOMAIN record[1].children[i][1]) =>
                Len(record[1].children[i][1].records) =
                    record[1].last_vec[i][1] - record[1].first_vec[i][1] + 1


-----------------------------------------------------------------------------
(* The type and the length of variable records. *)

\* the variable records of the VVRs that the index records of a decoded
\* variable point to
RecordsUnder(vxr_vec) ==
    UNION {UNION {{vxr_vec[k].children[i][1].records[j] :
                      j \in 1..Len(vxr_vec[k].children[i][1].records)} :
                  i \in {i \in 1..Len(vxr_vec[k].children) :
                            /\ vxr_vec[k].children[i] # <<>>
                            /\ "records" \in DOMAIN vxr_vec[k].children[i][1]}} :
           k \in 1..Len(vxr_vec)}

\* the product of the sizes of the variant dimensions, the empty product being 1
RECURSIVE VariantProduct(_, _, _)
VariantProduct(variances, sizes, i) ==
    IF i > Len(variances) THEN 1
    ELSE (IF variances[i] THEN sizes[i] ELSE 1) * VariantProduct(variances, sizes, i + 1)

\* C12: every variable record under a decoded zVDR carries the zVDR's
\* data_type and the length num_elements times the product of the sizes of
\* its variant dimensions, whatever the context held before the zVDR.
C12_ZvdrVarData ==
    (cls = "ZVDR" /\ record # <<>>) =>
        /\ decoder.context.var_data_type = <<record[1].data_type>>
        /\ decoder.context.var_data_len =
               <<record[1].num_elements
                 * VariantProduct(record[1].dim_variances, record[1].size_z_dims, 1)>>
        /\ \A r \in RecordsUnder(record[1].vxr_vec) :
               /\ r.data_type = record[1].data_type
               /\ r.data_len = record[1].num_elements
                               * VariantProduct(record[1].dim_variances,
                                                record[1].size_z_dims, 1)
               /\ Len(r.data) = r.data_len

\* a zVDR of two Int1 per value and dimensions 2 (variant) and 5 (fixed),
\* decoded by a caller whose context held two Int2: its records hold four Int1
C12_Witness ==
    /\ cls = "ZVDR" /\ record # <<>>
    /\ record[1].data_type = 1 /\ record[1].num_elements = 2
    /\ record[1].size_z_dims = <<2, 5>>
    /\ record[1].dim_variances = <<TRUE, FALSE>>
    /\ \E r \in RecordsUnder(record[1].vxr_vec) : r.data_type = 1 /\ r.data_len = 4

\* C13: every variable record under a decoded rVDR carries the rVDR's
\* data_type.
C13_RvdrVarData ==
    (cls = "RVDR" /\ record # <<>>) =>
        \A r \in RecordsUnder(record[1].vxr_vec) : r.data_type = record[1].data_type


-----------------------------------------------------------------------------
(* Pad values and dimension variances. *)

\* the Int4 a record's first read of a field covered
FieldInFile(what) == Int4At(Log[FirstReadOf(what)].at + 1)

\* C14: a variable whose flags have bit 1 (has_padding) clear has no pad
\* value read from the file and keeps the empty vector as its pad_value.
C14_PadOnlyWhenFlagged ==
    \A class \in {"RVDR", "ZVDR"} :
        (cls = class /\ WasRead(<<class, "flags">>)
         /\ (FieldInFile(<<class, "flags">>) \div 2) % 2 = 0) =>
            /\ \A i \in 1..Len(Log) : Log[i].what # <<class, "pad_value">>
            /\ record # <<>> => record[1].pad_value = <<>>

\* C15: a variable whose dimension variance is neither -1 nor 0 is not decoded.
C15_VarianceValues ==
    \A class \in {"RVDR", "ZVDR"} :
        (cls = class /\ record # <<>>) =>
            \A i \in 1..Len(Log) :
                Log[i].what = <<class, "dim_variances">> =>
                    Int4At(Log[i].at + 1) \in {-1, 0}


-----------------------------------------------------------------------------
(* Optional fields. *)

\* the optional offsets of each record class, with the value that stands for
\* "absent"
OptionalOffsets ==
    {<<"GDR", "rvdr_head", <<0, 0>>>>, <<"GDR", "adr_head", <<0, 0>>>>,
     <<"ADR", "adr_next", <<0, 0>>>>, <<"ADR", "agredr_head", <<0, 0>>>>,
     <<"ADR", "azedr_head", <<0, 0>>>>,
     <<"AGREDR", "agredr_next", <<0, 0>>>>, <<"AZEDR", "azedr_next", <<0, 0>>>>,
     <<"RVDR", "rvdr_next", <<0, 0>>>>, <<"ZVDR", "zvdr_next", <<0, 0>>>>,
     <<"RVDR", "vxr_head", <<0, 0>>>>, <<"ZVDR", "vxr_head", <<0, 0>>>>,
     <<"RVDR", "vxr_tail", <<0, 0>>>>, <<"ZVDR", "vxr_tail", <<0, 0>>>>,
     <<"VXR", "vxr_next", <<0, 0>>>>, <<"UIR", "uir_next", <<0, 0>>>>,
     <<"UIR", "uir_prev", <<0, 0>>>>,
     <<"RVDR", "cpr_spr_offset", <<-1, -1>>>>, <<"ZVDR", "cpr_spr_offset", <<-1, -1>>>>}

\* the value the first read of a field covered, widened as offsets are
OffsetInFile(what) == OffsetAt(Log[FirstReadOf(what)].at, Log[FirstReadOf(what)].n)

\* the k-th read made for a field
NthReadOf(what, k) ==
    CHOOSE i \in 1..Len(Log) :
        /\ Log[i].what = what
        /\ Cardinality({j \in 1..i : Log[j].what = what}) = k

\* the optional value a sentinel rule makes of a value
UnlessSentinel(v, sentinel) == IF v = sentinel THEN <<>> ELSE <<v>>

\* the optional offsets, and first, last and offset of index records, are
\* absent exactly at their sentinel
SentinelRule ==
    /\ \A o \in OptionalOffsets :
           (cls = o[1] /\ record # <<>>) =>
               record[1][o[2]] = UnlessSentinel(OffsetInFile(<<o[1], o[2]>>), o[3])
    /\ (cls = "VXR" /\ record # <<>>) =>
           \A k \in 1..Len(record[1].first_vec) :
               /\ record[1].first_vec[k] =
                      UnlessSentinel(Int4At(Log[NthReadOf(<<"VXR", "first_vec">>, k)].at + 1), -1)
               /\ record[1].last_vec[k] =
                      UnlessSentinel(Int4At(Log[NthReadOf(<<"VXR", "last_vec">>, k)].at + 1), -1)
               /\ record[1].offset_vec[k] =
                      UnlessSentinel(OffsetAt(Log[NthReadOf(<<"VXR", "offset_vec">>, k)].at,
                                              Log[NthReadOf(<<"VXR", "offset_vec">>, k)].n),
                                     <<-1, -1>>)

VersionBelow22 ==
    \/ decoder.context.version[1][1] < 2
    \/ decoder.context.version[1][1] = 2 /\ decoder.context.version[1][2] < 2

\* C16: every optional field is absent exactly for its sentinel, 0 for next
\* pointers and heads and -1 for cpr_spr_offset and for the first, last and
\* offset of index records, a 4-byte 0xFFFFFFFF counting as -1; the GDR's
\* zvdr_head is absent for 0 and, in files below version 2.2.0, for every
\* value.
C16_Sentinels ==
    /\ SentinelRule
    /\ (cls = "GDR" /\ record # <<>>) =>
           record[1].zvdr_head =
               IF VersionBelow22 THEN <<>>
               ELSE UnlessSentinel(OffsetInFile(<<"GDR", "zvdr_head">>), <<0, 0>>)

\* a 2.x zVDR whose cpr_spr_offset bytes FF FF FF FF are absent, and one whose
\* bytes 00 00 00 00 are present
C16_Witness ==
    /\ cls = "ZVDR" /\ record # <<>>
    /\ Log[FirstReadOf(<<"ZVDR", "cpr_spr_offset">>)].n = 4
    /\ Int4At(Log[FirstReadOf(<<"ZVDR", "cpr_spr_offset">>)].at + 1) = 0
    /\ record[1].cpr_spr_offset = <<<<0, 0>>>>
    /\ record[1].zvdr_next = <<>>

\* C16 as stated: zvdr_head too is absent for 0 and for 0 only.
C16_ZvdrHeadOnlyZero ==
    /\ SentinelRule
    /\ (cls = "GDR" /\ record # <<>>) =>
           record[1].zvdr_head = UnlessSentinel(OffsetInFile(<<"GDR", "zvdr_head">>), <<0, 0>>)


-----------------------------------------------------------------------------
(* Values of a type known at run time. *)

\* the bytes of b before its first NUL
BeforeNul(b) ==
    IF \A i \in 1..Len(b) : b[i] # 0 THEN b
    ELSE SubSeq(b, 1, (CHOOSE i \in 1..Len(b) :
                          b[i] = 0 /\ \A j \in 1..(i - 1) : b[j] # 0) - 1)

\* where the pad value of the decoded variable starts in the file
PadAt == Log[FirstReadOf(<<cls, "pad_value">>)].at

\* C17: a pad value of type 51 or 52 and N elements is one string, the
\* bytes before the first NUL of the N bytes read.
C17_StringsStopAtNul ==
    (cls \in {"RVDR", "ZVDR"} /\ record # <<>> /\ record[1].data_type \in {51, 52}
     /\ record[1].num_elements > 0) =>
        /\ Len(record[1].pad_value) = 1
        /\ record[1].pad_value[1].v =
               BeforeNul(SubSeq(file, PadAt + 1, PadAt + record[1].num_elements))

\* the variant and the byte size the table gives a tag
TableOf(tag) ==
    CASE tag = 1 -> <<"Int1", 1>>     [] tag = 2 -> <<"Int2", 2>>
      [] tag = 4 -> <<"Int4", 4>>     [] tag = 8 -> <<"Int8", 8>>
      [] tag = 11 -> <<"Uint1", 1>>   [] tag = 12 -> <<"Uint2", 2>>
      [] tag = 14 -> <<"Uint4", 4>>   [] tag = 21 -> <<"Real4", 4>>
      [] tag = 44 -> <<"Real4", 4>>   [] tag = 22 -> <<"Real8", 8>>
      [] tag = 45 -> <<"Real8", 8>>   [] tag = 31 -> <<"Epoch", 8>>
      [] tag = 32 -> <<"Epoch16", 16>> [] tag = 33 -> <<"TimeTt2000", 8>>
      [] tag = 41 -> <<"Byte", 1>>

TableTags == {1, 2, 4, 8, 11, 12, 14, 21, 22, 31, 32, 33, 41, 44, 45}

\* the reads made for the pad value
PadReads == {i \in 1..Len(Log) : Log[i].what = <<cls, "pad_value">>}

\* the data type and the count the variable's header holds in the file
TagInFile == FieldInFile(<<cls, "data_type">>)
CountInFile == FieldInFile(<<cls, "num_elements">>)

\* the context holds an encoding whose byte order is known
EndianKnown ==
    /\ decoder.context.encoding # <<>>
    /\ decoder.context.encoding[1] \in BigEndianEncodings \cup LittleEndianEncodings

\* C18: under an encoding of known byte order, a pad value of a type of the table has num_elements values of the
\* table's variant, read one after the other in the table's size, the cursor
\* ending num_elements sizes on; a tag outside the table (other than 51 and
\* 52) and a negative num_elements end the decode with a decode error before
\* a byte of the value is read.
C18_TypeTable ==
    (cls \in {"RVDR", "ZVDR"} /\ pc = "done" /\ WasRead(<<cls, "dim_variances">>)
     /\ Log[Len(Log)].ok /\ EndianKnown) =>
        CASE TagInFile \in TableTags /\ CountInFile >= 0 ->
               /\ (\A i \in 1..Len(Log) : Log[i].what[1] = cls) => record # <<>>
               /\ Cardinality(PadReads) = CountInFile
               /\ \A k \in 1..CountInFile :
                      /\ Log[NthReadOf(<<cls, "pad_value">>, k)].n = TableOf(TagInFile)[2]
                      /\ Log[NthReadOf(<<cls, "pad_value">>, k)].at =
                             PadAt + (k - 1) * TableOf(TagInFile)[2]
               /\ record # <<>> => Len(record[1].pad_value) = CountInFile
               /\ \A k \in 1..(IF record = <<>> THEN 0 ELSE CountInFile) :
                      /\ record[1].pad_value[k].t = TableOf(TagInFile)[1]
                      /\ TableOf(TagInFile)[2] = 1 =>
                             record[1].pad_value[k].v =
                                 IF TagInFile = 11 THEN file[PadAt + k]
                                 ELSE IF file[PadAt + k] >= 128 THEN file[PadAt + k] - 256
                                 ELSE file[PadAt + k]
                      /\ TableOf(TagInFile)[2] = 2 =>
                             record[1].pad_value[k].v =
                                 Int2At(PadAt + 2 * (k - 1), ContextIsLittle, TagInFile = 2)
               /\ (CountInFile > 0 /\ LastReadOf(<<cls, "pad_value">>) = Len(Log)) =>
                      decoder.pos = PadAt + CountInFile * TableOf(TagInFile)[2]
          [] TagInFile \in {51, 52} -> TRUE
          [] OTHER ->
               /\ PadReads = {}
               /\ record = <<>>
               /\ result # <<>> /\ result[1].kind = "Decode"

\* three Uint2 read little-endian from the table's entry for the tag 12
C18_Witness ==
    /\ cls = "ZVDR" /\ record # <<>>
    /\ TagInFile = 12 /\ CountInFile = 3
    /\ ContextIsLittle
    /\ Len(record[1].pad_value) = 3
    /\ record[1].pad_value[1] = [t |-> "Uint2", v |-> 97]
    /\ record[1].pad_value[2] = [t |-> "Uint2", v |-> 66 * 256 + 200]
    /\ decoder.pos = PadAt + 6


\* the k-th value of the decoded pad value and the bytes it was read from
PadValue(k) == record[1].pad_value[k]
PadBytesOf(k) ==
    LET e == Log[NthReadOf(<<cls, "pad_value">>, k)]
    IN  SubSeq(file, e.at + 1, e.at + e.n)

\* C19: a value decoded from size(T) bytes is the value whose to_be_bytes
\* (big-endian decode) or to_le_bytes (little-endian decode) are those bytes,
\* and decoding its bytes again gives it back in both byte orders; the two
\* halves of an Epoch16 are swapped each on its own and keep their order.
C19_RoundTrip ==
    (cls \in {"RVDR", "ZVDR"} /\ record # <<>> /\ TagInFile \in TableTags) =>
        \A k \in 1..Len(record[1].pad_value) :
            LET t == PadValue(k).t
                v == PadValue(k).v
                b == PadBytesOf(k)
            IN  /\ Len(b) = SizeOfVariant(t)
                /\ Len(ToBeBytes(t, v)) = SizeOfVariant(t)
                /\ Len(ToLeBytes(t, v)) = SizeOfVariant(t)
                /\ b = IF ContextIsLittle THEN ToLeBytes(t, v) ELSE ToBeBytes(t, v)
                /\ FromBeBytes(t, ToBeBytes(t, v)) = v
                /\ FromLeBytes(t, ToLeBytes(t, v)) = v
                /\ t = "Epoch16" =>
                       /\ SubSeq(ToLeBytes(t, v), 1, 8) = Reverse(SubSeq(ToBeBytes(t, v), 1, 8))
                       /\ SubSeq(ToLeBytes(t, v), 9, 16) = Reverse(SubSeq(ToBeBytes(t, v), 9, 16))

\* an Epoch16 read little-endian whose halves differ
C19_Witness ==
    /\ cls = "ZVDR" /\ record # <<>>
    /\ TagInFile = 32 /\ CountInFile = 1
    /\ ContextIsLittle
    /\ PadValue(1).t = "Epoch16"
    /\ PadValue(1).v[1] # PadValue(1).v[2]
    /\ PadValue(1).v[1] = I64FromLE(SubSeq(file, PadAt + 1, PadAt + 8))
    /\ ToLeBytes("Epoch16", PadValue(1).v) = SubSeq(file, PadAt + 1, PadAt + 16)


-----------------------------------------------------------------------------
(* Fixed-width strings. *)

\* C20: the copyright is read in 1945 bytes under a version below 2.5 and in
\* 256 bytes otherwise; the names of attributes and of variables are read in
\* 64 bytes under a major version below 3 and in 256 bytes otherwise.
C20_StringWidths ==
    \A i \in 1..Len(Log) :
        LET e == Log[i]
            v == e.ver[1]
        IN  (e.op = "read" /\ e.ver # <<>>) =>
                /\ e.what = <<"CDR", "copyright">> =>
                       e.n = IF v[1] < 2 \/ (v[1] = 2 /\ v[2] < 5) THEN 1945 ELSE 256
                /\ e.what \in {<<"ADR", "name">>, <<"RVDR", "name">>, <<"ZVDR", "name">>} =>
                       e.n = IF v[1] < 3 THEN 64 ELSE 256

\* the part of C20 on the copyright and on attribute names
C20_CopyrightAndAttributeNames ==
    \A i \in 1..Len(Log) :
        LET e == Log[i]
            v == e.ver[1]
        IN  (e.op = "read" /\ e.ver # <<>>) =>
                /\ e.what = <<"CDR", "copyright">> =>
                       e.n = IF v[1] < 2 \/ (v[1] = 2 /\ v[2] < 5) THEN 1945 ELSE 256
                /\ e.what = <<"ADR", "name">> => e.n = IF v[1] < 3 THEN 64 ELSE 256


-----------------------------------------------------------------------------
(* Strings of a given width. *)

\* the reads made for a string of a given width
StringReads ==
    {i \in 1..Len(Log) : Log[i].op = "read" /\ Log[i].what[2] \in {"copyright", "name"}}

\* C21: a string read that the stream cannot fill ends the decode with the
\* I/O error, and no record holding a string is returned.
C21_ShortStringIsIoError ==
    \A i \in StringReads :
        (~Log[i].ok /\ pc = "done") =>
            /\ result # <<>> /\ result[1].kind = "Io"
            /\ record = <<>>


-----------------------------------------------------------------------------
(* Sizes and counts taken from the file. *)

\* C22: no size or count of the file makes the decoder panic: a count that
\* is negative, too small or too large ends the decode with a decode error.
C22_CountsNeverPanic == ErrKind # "Panic"


-----------------------------------------------------------------------------
(* Chains and trees of records. *)

\* C23: no decode runs forever: a chain or an index tree that leads back to
\* a record already decoded does not keep the decoder going round.
C23_DecodeTerminates == ErrKind # "Diverges"


-----------------------------------------------------------------------------
(* The decode context. *)

\* C24: once the GDR has been decoded the context holds the number and the
\* sizes of the rVariable dimensions the GDR gave.
C24_GdrSetsRDims ==
    /\ (cls = "GDR" /\ record # <<>>) =>
           /\ decoder.context.num_r_dims = Some(record[1].dim_rvar)
           /\ decoder.context.size_r_dims = Some(record[1].sizes_rvar)
    /\ (WholeDecode /\ gdr # <<>>) =>
           /\ decoder.context.num_r_dims = Some(gdr[1].dim_rvar)
           /\ decoder.context.size_r_dims = Some(gdr[1].sizes_rvar)


\* the offsets get_record_vec goes to for the list vec that starts at head
OffsetsOf(head, vec, nextf) ==
    IF head = <<>> THEN <<>>
    ELSE [k \in 1..Len(vec) |-> IF k = 1 THEN head[1] ELSE vec[k - 1][nextf][1]]

\* the places of the seeks of the I/O trace, in order
Seeks ==
    LET s == SelectSeq(Log, LAMBDA e : e.op = "seek")
    IN  [k \in 1..Len(s) |-> s[k].at]

\* C25: the list of entries of a decoded attribute holds the record at the
\* head and then the record at each next offset, in that order, the last one
\* being the first whose next is absent; the decoder seeks to each of these
\* offsets, and to no other place, before it decodes the record there; a head
\* below 0 ends the decode with an error and no seek.
C25_ListWalk ==
    (cls = "ADR" /\ pc = "done") =>
        /\ record # <<>> =>
              LET r == record[1]
                  gr == OffsetsOf(r.agredr_head, r.agredr_vec, "agredr_next")
                  z == OffsetsOf(r.azedr_head, r.azedr_vec, "azedr_next")
              IN  /\ (r.agredr_head = <<>>) <=> (r.agredr_vec = <<>>)
                  /\ (r.azedr_head = <<>>) <=> (r.azedr_vec = <<>>)
                  /\ \A k \in 1..Len(r.agredr_vec) :
                         IsSome(r.agredr_vec[k].agredr_next) <=> k < Len(r.agredr_vec)
                  /\ \A k \in 1..Len(r.azedr_vec) :
                         IsSome(r.azedr_vec[k].azedr_next) <=> k < Len(r.azedr_vec)
                  /\ Seeks = [k \in 1..(Len(gr) + Len(z)) |->
                                 PosOfU64(IF k <= Len(gr) THEN gr[k] ELSE z[k - Len(gr)])]
                  /\ \A i \in 1..Len(Log) :
                         Log[i].op = "seek" =>
                             /\ i < Len(Log)
                             /\ Log[i + 1].what[2] = "record_size"
                             /\ Log[i + 1].at = Log[i].at
        /\ (WasRead(<<"ADR", "agredr_head">>)
            /\ I64IsNeg(OffsetInFile(<<"ADR", "agredr_head">>))) =>
              /\ record = <<>>
              /\ ErrKind = "Decode"
              /\ Seeks = <<>>

\* a list of two entries that runs backward through the file, then the z-entry
C25_Witness ==
    /\ cls = "ADR" /\ record # <<>>
    /\ Len(record[1].agredr_vec) = 2
    /\ Len(record[1].azedr_vec) = 1
    /\ record[1].agredr_vec[1].num = 3
    /\ record[1].agredr_vec[2].num = 2
    /\ Len(Seeks) = 3 /\ Seeks[2] < Seeks[1] /\ Seeks[1] < Seeks[3]


\* the places in the I/O trace where the record type of a child was peeked
Peeks == {i \in 1..Len(Log) : Log[i].what = <<"VXRChild", "record_type">> /\ Log[i].ok}

\* the decoder a record type of a child names
ChildClass(tag) == CASE tag = 6 -> "VXR" [] tag = 7 -> "VVR" [] tag = 13 -> "CVVR"

\* C26: after the record size and the record type of a child have been read,
\* the decoder seeks back to where the child starts, 12 bytes back from
\* version 3 on and 8 bytes before it; the record types 6, 7 and 13 then have
\* the VXR, VVR and CVVR decoder read the record from its start, and any
\* other record type ends the decode with a decode error and no more reads.
C26_PeekAndSeekBack ==
    \A i \in Peeks :
        LET start == Log[i - 1].at
            tag == Int4At(Log[i].at + 1)
            back == IF Log[i].ver[1][1] >= 3 THEN 12 ELSE 8
        IN  /\ Log[i - 1].what = <<"VXRChild", "record_size">>
            /\ Log[i - 1].n + Log[i].n = back
            /\ pc = "done" =>
                  /\ i < Len(Log)
                  /\ Log[i + 1].op = "seek"
                  /\ Log[i + 1].at = Log[i].at + Log[i].n - back
                  /\ Log[i + 1].at = start
                  /\ IF tag \in {6, 7, 13}
                     THEN i + 2 <= Len(Log) =>
                              /\ Log[i + 2].what = <<ChildClass(tag), "record_size">>
                              /\ Log[i + 2].at = start
                     ELSE /\ i + 1 = Len(Log)
                          /\ ErrKind = "Decode"
                          /\ record = <<>>

\* a VVR decoded as the child of an index record of a version 2 file
C26_Witness ==
    /\ pc = "done" /\ record # <<>>
    /\ \E i \in Peeks :
           /\ Log[i].ver[1][1] < 3
           /\ Int4At(Log[i].at + 1) = 7
           /\ Log[i + 1].op = "seek" /\ Log[i + 1].at = Log[i].at - 4
           /\ Log[i + 2].what = <<"VVR", "record_size">>


\* the number of slots of an index record that hold an offset
PresentOffsets(vxr) ==
    Cardinality({i \in 1..Len(vxr.offset_vec) : IsSome(vxr.offset_vec[i])})

\* the four vectors of an index record have one place per slot
VxrLengths(vxr) ==
    /\ Len(vxr.first_vec) = vxr.num_entries
    /\ Len(vxr.last_vec) = vxr.num_entries
    /\ Len(vxr.offset_vec) = vxr.num_entries
    /\ Len(vxr.children) = vxr.num_entries

\* C27: in a decoded index record the vectors first, last, offset and
\* children have num_entries places, the slots below num_used_entries hold an
\* offset and a child, num_used_entries slots hold an offset, and a slot
\* that holds a first holds a last and an offset.
C27_SlotsMatch ==
    (cls = "VXR" /\ record # <<>>) =>
        LET vxr == record[1]
        IN  /\ VxrLengths(vxr)
            /\ \A i \in 1..Len(vxr.offset_vec) :
                   /\ i <= vxr.num_used_entries =>
                          IsSome(vxr.offset_vec[i]) /\ IsSome(vxr.children[i])
                   /\ IsSome(vxr.first_vec[i]) =>
                          IsSome(vxr.last_vec[i]) /\ IsSome(vxr.offset_vec[i])
            /\ PresentOffsets(vxr) = vxr.num_used_entries

\* the part of C27 the decoder keeps: the lengths, a child exactly where an
\* offset is, and a first and a last wherever an offset is
C27_SlotsDecoded ==
    (cls = "VXR" /\ record # <<>>) =>
        LET vxr == record[1]
        IN  /\ VxrLengths(vxr)
            /\ \A i \in 1..Len(vxr.offset_vec) :
                   /\ IsSome(vxr.children[i]) <=> IsSome(vxr.offset_vec[i])
                   /\ IsSome(vxr.offset_vec[i]) =>
                          IsSome(vxr.first_vec[i]) /\ IsSome(vxr.last_vec[i])


-----------------------------------------------------------------------------
(* Attribute entries. *)

\* where the value of the decoded attribute entry starts in the file
ValueAt == Log[FirstReadOf(<<cls, "value">>)].at

\* C28: an attribute entry, gr or z, of type 51 or 52 and N elements holds
\* one string, the N bytes of its value before the first NUL; an entry of
\* another type holds num_elements values; an entry of no element decodes to
\* an empty value.
C28_EntryValues ==
    (cls \in {"AGREDR", "AZEDR"} /\ pc = "done" /\ WasRead(<<cls, "rfu_e">>)
     /\ FieldInFile(<<cls, "rfu_e">>) = -1 /\ EndianKnown) =>
        LET tag == FieldInFile(<<cls, "data_type">>)
            n == FieldInFile(<<cls, "num_elements">>)
        IN  /\ n = 0 => record # <<>> /\ record[1].value = <<>>
            /\ (n > 0 /\ record # <<>> /\ tag \in {51, 52}) =>
                   /\ Len(record[1].value) = 1
                   /\ record[1].value[1].t = "String"
                   /\ record[1].value[1].v = BeforeNul(SubSeq(file, ValueAt + 1, ValueAt + n))
            /\ (n > 0 /\ record # <<>> /\ tag \notin {51, 52}) =>
                   Len(record[1].value) = n

\* the part of C28 on entries of the other types
C28_OtherTypes ==
    (cls \in {"AGREDR", "AZEDR"} /\ record # <<>> /\ record[1].data_type \notin {51, 52}) =>
        Len(record[1].value) = record[1].num_elements


-----------------------------------------------------------------------------
(* Compression parameters. *)

\* C29: a decoded CPR has a compression type of 0, 1, 2, 3 or 5, a level of
\* 1..9 when the type is 5 (Gzip) and the level 0 for the other types.
C29_LevelFitsKind ==
    (cls = "CPR" /\ record # <<>>) =>
        /\ record[1].compression_type \in {0, 1, 2, 3, 5}
        /\ IF record[1].compression_type = 5
           THEN record[1].compression_level \in 1..9
           ELSE record[1].compression_level = 0

\* the part of C29 the decoder keeps: the types, the level 0 of the types
\* other than Gzip, and a level other than 0 for Gzip
C29_LevelChecked ==
    (cls = "CPR" /\ record # <<>>) =>
        /\ record[1].compression_type \in {0, 1, 2, 3, 5}
        /\ (record[1].compression_type = 5) <=> (record[1].compression_level # 0)


-----------------------------------------------------------------------------
(* The number of records of a VVR. *)

\* every VVR right below the index record vxr holds last - first records of
\* the slot that points to it, and so on below each index record vxr points
\* to, down to the given depth
RECURSIVE SlotCounts(_, _)
SlotCounts(vxr, depth) ==
    \A i \in 1..Len(vxr.children) :
        IsSome(vxr.children[i]) =>
            LET child == vxr.children[i][1]
            IN  CASE child.record_type = 7 ->
                       Len(child.records) = vxr.last_vec[i][1] - vxr.first_vec[i][1]
                  [] child.record_type = 6 -> depth > 0 /\ SlotCounts(child, depth - 1)
                  [] OTHER -> TRUE

\* the deepest tree of index records the files hold
MaxDepth == 3

\* C30: every VVR of a decoded tree of index records holds the number of
\* records its own slot gives, last - first, whatever the slots above it and
\* the slots decoded before it gave.
C30_RecordsOfOwnSlot ==
    /\ (cls = "VXR" /\ record # <<>>) => SlotCounts(record[1], MaxDepth)
    /\ (cls \in {"RVDR", "ZVDR"} /\ record # <<>>) =>
           \A k \in 1..Len(record[1].vxr_vec) : SlotCounts(record[1].vxr_vec[k], MaxDepth)

\* an index record whose first slot leads to a nested index record with a
\* VVR of one record and whose second slot leads to a VVR of three records
C30_Witness ==
    /\ cls = "VXR" /\ record # <<>>
    /\ Len(record[1].children) = 2
    /\ IsSome(record[1].children[1]) /\ IsSome(record[1].children[2])
    /\ record[1].children[1][1].record_type = 6
    /\ record[1].last_vec[1][1] - record[1].first_vec[1][1] = 5
    /\ Len(record[1].children[1][1].children[1][1].records) = 1
    /\ record[1].children[2][1].record_type = 7
    /\ Len(record[1].children[2][1].records) = 3
    /\ decoder.context.num_records = Some(3)

====
